---------------------------- MODULE Spec2Model ----------------------------
(***************************************************************************)
(* Model of the neuroevolution core of matheus3301/asteroids:              *)
(* internal/ai/genetic.go (GA, NewGA, Evolve, tournamentSelect,            *)
(* blendCrossover, mutate).                                                *)
(*                                                                         *)
(* float64 values are modelled as binary floating-point numbers of reduced *)
(* precision: an integer n stands for the real n / 2^FracBits, a value is  *)
(* representable when it has at most Precision significant bits, and every *)
(* arithmetic operation rounds its exact result to the nearest             *)
(* representable value, ties to even, as IEEE-754 does.                    *)
(*                                                                         *)
(* A []float64 is a reference to a backing array: genomes live in `heap`   *)
(* and an Individual holds the address of its genome, so that sharing of   *)
(* storage between individuals is visible in the model.                    *)
(***************************************************************************)
EXTENDS Integers, Sequences, FiniteSets, TLC

(***************************************************************************)
(* Bounds of the model.                                                    *)
(***************************************************************************)
\* significant bits of a modelled float64 (53 in the program)
Precision == 3
\* the modelled floats are multiples of 2^-FracBits
FracBits == 3
\* number of Evolve calls that are explored
MaxGen == 2

VARIABLES
    cfg,          \* GA.Config
    Population,   \* GA.Population: sequence of [Genome: address, Fitness]
    Generation,   \* GA.Generation
    BestEver,     \* GA.BestEver
    heap,         \* backing arrays of all genome slices, by address
    pc,           \* position of the thread that calls Evolve
    i,            \* loop variable of the loop Evolve is in
    next,         \* Evolve's local `next`
    sem,          \* number of tokens in the channel `sem`
    wg,           \* counter of the WaitGroup `wg`
    task,         \* position of the evaluation goroutine of each index
    p1,           \* Evolve's local `p1` (result of the first tournament)
    draws,        \* the indices rand.Intn returned in the tournament for p1
    rand,         \* the random source: the values its functions may return
    hist,         \* history: what the evaluation rounds assigned so far
    call,         \* a single call of a pure function: inputs and result
    nets,         \* the Networks that exist, by name, and the last operation
    sim           \* a RunSimulation call: its locals and the World of its run

vars == <<cfg, Population, Generation, BestEver, heap, pc, i, next, sem, wg,
          task, p1, draws, rand, hist, call, nets, sim>>

gaVars == <<cfg, Population, Generation, BestEver, heap, pc, i, next, sem,
            wg, task, p1, draws, rand, hist>>

\* the variables the GA does not touch
libVars == <<call, nets, sim>>

(***************************************************************************)
(* float64 arithmetic                                                      *)
(***************************************************************************)
RECURSIVE Pow2(_)
Pow2(n) == IF n = 0 THEN 1 ELSE 2 * Pow2(n - 1)

Abs(x) == IF x < 0 THEN -x ELSE x

Scale == Pow2(FracBits)

\* the float64 1.0
One == Scale

\* the least e >= 0 such that x / den < 2^Precision * 2^e
RECURSIVE RoundExp(_, _, _)
RoundExp(x, den, e) ==
    IF x < Pow2(Precision) * den * Pow2(e) THEN e ELSE RoundExp(x, den, e + 1)

\* the representable value nearest to num / den (in units of 2^-FracBits),
\* ties to the even significand
Round(num, den) ==
    LET x == Abs(num)
        e == RoundExp(x, den, 0)
        d == den * Pow2(e)
        k == x \div d
        r == x % d
        up == (2 * r > d) \/ (2 * r = d /\ k % 2 = 1)
        m == (IF up THEN k + 1 ELSE k) * Pow2(e)
    IN  IF num < 0 THEN -m ELSE m

Representable(x) == Round(x, 1) = x

\* x + y, x - y, x * y on float64
FAdd(x, y) == Round(x + y, 1)
FSub(x, y) == Round(x - y, 1)
FMul(x, y) == Round(x * y, Scale)
\* x * y + z with a single rounding (a fused multiply-add)
FMA(x, y, z) == Round(x * y + z * Scale, Scale)

\* the values rand.Float64() returns: the floats in [0, 1)
Float64Draws == {u \in 0..(Scale - 1) : Representable(u)}

\* values rand.NormFloat64() returns: -1.0, -0.5, 0.0, 0.5, 1.0
NormDraws == {-One, -(One \div 2), 0, One \div 2, One}

\* a random source that returns every modelled value
FullRand == [Float64 |-> Float64Draws, NormFloat64 |-> NormDraws]

\* a random source whose draws are 0.0 or 0.5 and -1.0 or 1.0
CoarseRand == [Float64 |-> {0, One \div 2}, NormFloat64 |-> {-One, One}]

\* all sequences over the index set 1..n whose k-th element is in S[k]
RECURSIVE SeqProduct(_, _)
SeqProduct(S, n) ==
    IF n = 0 THEN {<<>>}
    ELSE {Append(s, x) : s \in SeqProduct(S, n - 1), x \in S[n]}

Min(a, b) == IF a < b THEN a ELSE b
Max(a, b) == IF a > b THEN a ELSE b

(***************************************************************************)
(* blendCrossover                                                          *)
(***************************************************************************)
\* the values `alpha*a[i] + (1-alpha)*b[i]` can take: rounded after every
\* operation, or with one of the products fused into the addition, which
\* the Go specification leaves to the implementation
BlendGene(alpha, x, y) ==
    LET beta == FSub(One, alpha)
    IN  {FAdd(FMul(alpha, x), FMul(beta, y)),
         FMA(alpha, x, FMul(beta, y)),
         FMA(beta, y, FMul(alpha, x))}

\* a variant whose child is one gene short
blendCrossoverShort(a, b, r) ==
    SeqProduct([k \in 1..Len(a) |->
                   UNION {BlendGene(alpha, a[k], b[k]) : alpha \in r.Float64}],
               Len(a) - 1)

\* the children blendCrossover(a, b) can return, over the draws of alpha
\* from the random source r
blendCrossover(a, b, r) ==
    SeqProduct([k \in 1..Len(a) |->
                   UNION {BlendGene(alpha, a[k], b[k]) : alpha \in r.Float64}],
               Len(a))

(***************************************************************************)
(* mutate                                                                  *)
(***************************************************************************)
\* a variant that also mutates when the draw equals rate
MutateGeneInclusive(g, rate, scale, r) ==
    {g : u \in {v \in r.Float64 : ~(v <= rate)}}
    \cup UNION {{FAdd(g, FMul(n, scale)), FMA(n, scale, g)} :
                 u \in {v \in r.Float64 : v <= rate}, n \in r.NormFloat64}

\* the values gene g can have after one iteration of mutate's loop: it is
\* left alone when the draw is not below rate, and otherwise incremented by
\* NormFloat64() * scale (rounded, or fused into the addition)
MutateGene(g, rate, scale, r) ==
    {g : u \in {v \in r.Float64 : ~(v < rate)}}
    \cup UNION {{FAdd(g, FMul(n, scale)), FMA(n, scale, g)} :
                 u \in {v \in r.Float64 : v < rate}, n \in r.NormFloat64}

\* the contents genome can have after mutate(genome, rate, scale), over the
\* draws from the random source r
mutate(genome, rate, scale, r) ==
    SeqProduct([k \in 1..Len(genome) |->
                   MutateGene(genome[k], rate, scale, r)],
               Len(genome))

(***************************************************************************)
(* Slices and individuals                                                  *)
(***************************************************************************)
\* the nil slice
Nil == 0

\* the zero Individual
ZeroIndividual == [Genome |-> Nil, Fitness |-> 0]

\* a variant that returns src itself instead of a copy
CopySliceShared(h, src) == [heap |-> h, addr |-> src]

\* append([]float64{}, src...): a new backing array with the elements of src
CopySlice(h, src) == [heap |-> Append(h, h[src]), addr |-> Len(h) + 1]

\* Individual{Genome: append([]float64{}, ind.Genome...), Fitness: ind.Fitness}
CopyIndividual(h, ind) ==
    LET c == CopySlice(h, ind.Genome)
    IN  [heap |-> c.heap, ind |-> [Genome |-> c.addr, Fitness |-> ind.Fitness]]

\* the contents of the genome of an individual
GenomeOf(h, ind) == IF ind.Genome = Nil THEN <<>> ELSE h[ind.Genome]

(***************************************************************************)
(* tournamentSelect                                                        *)
(***************************************************************************)
\* the number of indices one tournament draws: the first, and one per
\* iteration of `for range TournamentSize - 1`
NumDraws(size) == 1 + Max(size - 1, 0)

\* a variant that keeps the contender of lower fitness
RECURSIVE TournamentLoopWorst(_, _, _, _)
TournamentLoopWorst(pop, d, k, best) ==
    IF k > Len(d) THEN best
    ELSE LET contender == pop[d[k]]
         IN  TournamentLoopWorst(pop, d, k + 1,
                 IF contender.Fitness < best.Fitness THEN contender ELSE best)

\* the loop of tournamentSelect over the drawn indices d[k..]
RECURSIVE TournamentLoop(_, _, _, _)
TournamentLoop(pop, d, k, best) ==
    IF k > Len(d) THEN best
    ELSE LET contender == pop[d[k]]
         IN  TournamentLoop(pop, d, k + 1,
                 IF contender.Fitness > best.Fitness THEN contender ELSE best)

\* the individual tournamentSelect returns when rand.Intn returns d[1], d[2], ..
tournamentSelect(pop, d) == TournamentLoop(pop, d, 2, pop[d[1]])

\* the sequences of indices rand.Intn(len(pop)) can return in one tournament
TournamentDraws(pop, size) == [1..NumDraws(size) -> 1..Len(pop)]

(***************************************************************************)
(* sort.Slice by fitness, descending                                       *)
(***************************************************************************)
Descending(pop) ==
    \A a, b \in 1..Len(pop) : a < b => pop[a].Fitness >= pop[b].Fitness

\* a variant that leaves the elements in any order
SortSliceAnyOrder(pop) ==
    LET n == Len(pop)
        perms == {p \in [1..n -> 1..n] : \A a, b \in 1..n : a # b => p[a] # p[b]}
    IN  {[k \in 1..n |-> pop[p[k]]] : p \in perms}

\* sort.Slice is not stable: any descending arrangement of the elements
SortSlice(pop) ==
    LET n == Len(pop)
        perms == {p \in [1..n -> 1..n] : \A a, b \in 1..n : a # b => p[a] # p[b]}
    IN  {q \in {[k \in 1..n |-> pop[p[k]]] : p \in perms} : Descending(q)}

(***************************************************************************)
(* NewGA: the state after construction                                     *)
(***************************************************************************)
\* the values a gene of the initial population is drawn from
\* (rand.NormFloat64() * 0.5)
InitGenes == {FMul(n, One \div 2) : n \in {-One, One}}

\* the genomes of length n an individual of the initial population has,
\* with the first gene drawn from genes
InitGenomes(n, genes) ==
    {[k \in 1..n |-> IF k % 2 = 1 THEN x ELSE -x] : x \in genes}

\* the fitness values evaluate returns, for any evaluate function
Fitnesses == {-1, 1}

\* a GAConfig; the rates and the scale are float64 values
GAConfig(pop, genome, mrate, elite, tsize, crate, workers) ==
    [PopulationSize |-> pop, GenomeSize |-> genome, MutationRate |-> mrate,
     MutationScale |-> One \div 2, EliteCount |-> elite,
     TournamentSize |-> tsize, CrossoverRate |-> crate, Workers |-> workers]

\* the configurations of the sequential runs: one worker; crossover and
\* mutation with rate 0.5, two genes, a tournament of one, elites only, and
\* more elites than individuals
Configs ==
    {GAConfig(2, 1, One \div 2, 1, 2, One \div 2, 1),
     GAConfig(2, 2, 0, 1, 2, One \div 2, 1),
     GAConfig(2, 1, 0, 1, 1, 0, 1),
     GAConfig(2, 1, One, 2, 1, One, 1),
     GAConfig(2, 1, 0, 3, 1, 0, 1)}

\* the configurations of the parallel runs: three individuals evaluated by
\* zero, one or two workers
ParConfigs ==
    {GAConfig(3, 1, 0, 1, 1, 0, w) : w \in 0..2}

NewGA(c, genomes) ==
    /\ cfg = c
    /\ heap = genomes
    /\ Population = [k \in 1..c.PopulationSize |->
                        [Genome |-> k, Fitness |-> 0]]
    /\ Generation = 0
    /\ BestEver = ZeroIndividual

\* no Evolve call is in progress
Idle ==
    /\ pc = "idle"
    /\ i = 0
    /\ next = <<>>
    /\ sem = 0
    /\ wg = 0
    /\ task = [k \in 1..Len(Population) |-> "none"]
    /\ p1 = ZeroIndividual
    /\ draws = <<>>

NoCall == [op |-> "none"]

\* the names of the Network variables of a caller
NetNames == {"n", "m"}

\* the nil *Network
NilNet == [nil |-> TRUE]

\* no Network has been created and no operation on one has been called
NoNets == [obj |-> [x \in NetNames |-> NilNet], last |-> NoCall]

\* no RunSimulation call is in progress
NoSim == [pc |-> "none"]

\* nothing outside the GA is in use
NoLib ==
    /\ nets = NoNets
    /\ sim = NoSim

\* a GA constructed with a configuration of cs, before its first Evolve call
InitGA(cs, genes) ==
    /\ \E c \in cs :
         \E genomes \in [1..c.PopulationSize ->
                           InitGenomes(c.GenomeSize, genes)] :
            NewGA(c, genomes)
    /\ Idle
    /\ hist = [any |-> FALSE, max |-> 0, genomes |-> {}]

Init ==
    /\ InitGA(Configs, InitGenes)
    /\ rand = CoarseRand
    /\ call = NoCall
    /\ NoLib

InitPar ==
    /\ InitGA(ParConfigs, {One \div 2})
    /\ rand = CoarseRand
    /\ call = NoCall
    /\ NoLib

(***************************************************************************)
(* Evolve: parallel evaluation                                             *)
(***************************************************************************)
\* Evolve is called: cfg := ga.Config, wg and sem are created, the loop
\* over the population starts
EvolveCall ==
    /\ pc = "idle"
    /\ Generation < MaxGen
    /\ sem' = 0
    /\ wg' = 0
    /\ task' = [k \in 1..Len(Population) |-> "none"]
    /\ i' = 1
    /\ pc' = IF Len(Population) >= 1 THEN "add" ELSE "wait"
    /\ UNCHANGED <<cfg, Population, Generation, BestEver, heap, next, p1,
                   draws, rand, hist, libVars>>

\* wg.Add(1)
WgAdd ==
    /\ pc = "add"
    /\ wg' = wg + 1
    /\ pc' = "send"
    /\ UNCHANGED <<cfg, Population, Generation, BestEver, heap, i, next, sem,
                   task, p1, draws, rand, hist, libVars>>

\* a variant in which the send never blocks
SemNeverBlocks(n, workers) == TRUE

\* the channel send `sem <- struct{}{}` can proceed
SemCanSend(n, workers) == n < workers

\* sem <- struct{}{}, then `go func(idx int) {...}(i)`, then the next iteration
SemSend ==
    /\ pc = "send"
    /\ SemCanSend(sem, cfg.Workers)
    /\ sem' = sem + 1
    /\ task' = [task EXCEPT ![i] = "spawned"]
    /\ i' = i + 1
    /\ pc' = IF i + 1 <= Len(Population) THEN "add" ELSE "wait"
    /\ UNCHANGED <<cfg, Population, Generation, BestEver, heap, next, wg, p1,
                   draws, rand, hist, libVars>>

\* a variant in which every goroutine uses the slot of the first individual
SlotShared(idx) == 1

\* the population slot the goroutine started as `go func(idx int) {...}(i)`
\* reads and writes: ga.Population[idx], idx being its own copy of i
Slot(idx) == idx

\* the goroutine of index idx calls evaluate(ga.Population[idx].Genome)
TaskCall(idx) ==
    /\ task[idx] = "spawned"
    /\ task' = [task EXCEPT ![idx] = "evaluating"]
    /\ UNCHANGED <<cfg, Population, Generation, BestEver, heap, pc, i, next,
                   sem, wg, p1, draws, rand, hist, libVars>>

\* the history after fitness f was assigned to a genome with contents g
Record(h, g, f) ==
    IF ~h.any \/ f > h.max THEN [any |-> TRUE, max |-> f, genomes |-> {g}]
    ELSE IF f = h.max THEN [h EXCEPT !.genomes = @ \cup {g}]
    ELSE h

\* evaluate returns and its result is stored in ga.Population[idx].Fitness
TaskReturn(idx) ==
    /\ task[idx] = "evaluating"
    /\ \E f \in Fitnesses :
         /\ Population' = [Population EXCEPT ![Slot(idx)].Fitness = f]
         /\ hist' = Record(hist, GenomeOf(heap, Population[Slot(idx)]), f)
    /\ task' = [task EXCEPT ![idx] = "returned"]
    /\ UNCHANGED <<cfg, Generation, BestEver, heap, pc, i, next, sem, wg, p1,
                   draws, rand, libVars>>

\* a variant in which the goroutine does not receive from sem
TaskKeepsSlot(idx) ==
    /\ task[idx] = "returned"
    /\ task' = [task EXCEPT ![idx] = "released"]
    /\ UNCHANGED <<cfg, Population, Generation, BestEver, heap, pc, i, next,
                   sem, wg, p1, draws, rand, hist, libVars>>

\* the deferred `<-sem`, which runs first
TaskRelease(idx) ==
    /\ task[idx] = "returned"
    /\ sem > 0
    /\ sem' = sem - 1
    /\ task' = [task EXCEPT ![idx] = "released"]
    /\ UNCHANGED <<cfg, Population, Generation, BestEver, heap, pc, i, next,
                   wg, p1, draws, rand, hist, libVars>>

\* the deferred wg.Done(), which runs last
TaskDone(idx) ==
    /\ task[idx] = "released"
    /\ wg' = wg - 1
    /\ task' = [task EXCEPT ![idx] = "done"]
    /\ UNCHANGED <<cfg, Population, Generation, BestEver, heap, pc, i, next,
                   sem, p1, draws, rand, hist, libVars>>

\* a variant in which wg.Wait() returns at once
WaitReturnsAtOnce(n) == TRUE

\* wg.Wait() can return
WaitCanReturn(n) == n = 0

\* wg.Wait()
WgWait ==
    /\ pc = "wait"
    /\ WaitCanReturn(wg)
    /\ pc' = "sort"
    /\ UNCHANGED <<cfg, Population, Generation, BestEver, heap, i, next, sem,
                   wg, task, p1, draws, rand, hist, libVars>>

(***************************************************************************)
(* Evolve: sort, best ever, next generation                                *)
(***************************************************************************)
\* sort.Slice(ga.Population, ...)
Sort ==
    /\ pc = "sort"
    /\ Population' \in SortSlice(Population)
    /\ pc' = "best"
    /\ UNCHANGED <<cfg, Generation, BestEver, heap, i, next, sem, wg, task,
                   p1, draws, rand, hist, libVars>>

\* a variant that keeps the best of the last generation
BestOfGeneration(top, best, gen) == TRUE

\* a variant that also replaces BestEver on a tie
BetterOrEqual(top, best, gen) == top.Fitness >= best.Fitness \/ gen = 0

\* ga.Population[0].Fitness > ga.BestEver.Fitness || ga.Generation == 0
BetterThanBest(top, best, gen) == top.Fitness > best.Fitness \/ gen = 0

\* the `Track best ever` statement
TrackBest ==
    /\ pc = "best"
    /\ IF BetterThanBest(Population[1], BestEver, Generation)
       THEN LET c == CopyIndividual(heap, Population[1])
            IN  /\ heap' = c.heap
                /\ BestEver' = c.ind
       ELSE UNCHANGED <<heap, BestEver>>
    /\ pc' = "elite"
    /\ UNCHANGED <<cfg, Population, Generation, i, next, sem, wg, task, p1,
                   draws, rand, hist, libVars>>

\* a variant that copies the genome of an elite but not its fitness
RECURSIVE ElitismLoopNoFitness(_, _, _, _, _)
ElitismLoopNoFitness(h, pop, nxt, k, count) ==
    IF k > count THEN [heap |-> h, next |-> nxt]
    ELSE LET c == CopySlice(h, pop[k].Genome)
         IN  ElitismLoopNoFitness(c.heap, pop,
                 [nxt EXCEPT ![k] = [Genome |-> c.addr, Fitness |-> 0]],
                 k + 1, count)

\* the elitism loop from index k on: next[k] is a copy of pop[k]
RECURSIVE ElitismLoop(_, _, _, _, _)
ElitismLoop(h, pop, nxt, k, count) ==
    IF k > count THEN [heap |-> h, next |-> nxt]
    ELSE LET c == CopyIndividual(h, pop[k])
         IN  ElitismLoop(c.heap, pop, [nxt EXCEPT ![k] = c.ind], k + 1, count)

\* next := make([]Individual, cfg.PopulationSize) and the elitism loop; an
\* index beyond the population or beyond next is a run-time panic
Elitism ==
    /\ pc = "elite"
    /\ IF cfg.EliteCount > Min(cfg.PopulationSize, Len(Population))
       THEN /\ pc' = "panic"
            /\ UNCHANGED <<heap, next, i>>
       ELSE LET r == ElitismLoop(heap, Population,
                         [k \in 1..cfg.PopulationSize |-> ZeroIndividual],
                         1, cfg.EliteCount)
            IN  /\ heap' = r.heap
                /\ next' = r.next
                /\ i' = cfg.EliteCount + 1
                /\ pc' = IF cfg.EliteCount < cfg.PopulationSize
                         THEN "select" ELSE "replace"
    /\ UNCHANGED <<cfg, Population, Generation, BestEver, sem, wg, task, p1,
                   draws, rand, hist, libVars>>

\* p1 := ga.tournamentSelect()
SelectP1 ==
    /\ pc = "select"
    /\ \E d \in TournamentDraws(Population, cfg.TournamentSize) :
         /\ draws' = d
         /\ p1' = tournamentSelect(Population, d)
    /\ pc' = "breed"
    /\ UNCHANGED <<cfg, Population, Generation, BestEver, heap, i, next, sem,
                   wg, task, rand, hist, libVars>>

\* the child slices `child` can be before mutation, with the heap that
\* holds them: blendCrossover(p1.Genome, p2.Genome) for a second parent p2
\* when rand.Float64() < CrossoverRate, a copy of p1.Genome otherwise
NewChild(h, pop, p, c, r) ==
    LET cross == {u < c.CrossoverRate : u \in r.Float64}
        second == {tournamentSelect(pop, d) :
                      d \in TournamentDraws(pop, c.TournamentSize)}
        blended == UNION {blendCrossover(h[p.Genome], h[p2.Genome], r) :
                            p2 \in second}
    IN  (IF TRUE \in cross
         THEN {[heap |-> Append(h, g), addr |-> Len(h) + 1] : g \in blended}
         ELSE {})
        \cup (IF FALSE \in cross THEN {CopySlice(h, p.Genome)} ELSE {})

\* mutate(child, ...) writes the array of child in place
MutateInPlace(ch, c, r) ==
    {[heap |-> [ch.heap EXCEPT ![ch.addr] = m], addr |-> ch.addr] :
        m \in mutate(ch.heap[ch.addr], c.MutationRate, c.MutationScale, r)}

\* the rest of the body of the fill loop, and the next iteration; the index
\* of `next[i] = ...` is below 0 when EliteCount is negative, a run-time panic
Breed ==
    /\ pc = "breed"
    /\ IF i \notin DOMAIN next
       THEN /\ pc' = "panic"
            /\ UNCHANGED <<heap, next, i, p1, draws>>
       ELSE /\ \E ch \in UNION {MutateInPlace(n, cfg, rand) :
                                 n \in NewChild(heap, Population, p1, cfg, rand)} :
                 /\ heap' = ch.heap
                 /\ next' = [next EXCEPT ![i] = [Genome |-> ch.addr, Fitness |-> 0]]
            /\ i' = i + 1
            /\ pc' = IF i + 1 <= cfg.PopulationSize THEN "select" ELSE "replace"
            /\ p1' = ZeroIndividual
            /\ draws' = <<>>
    /\ UNCHANGED <<cfg, Population, Generation, BestEver, sem, wg, task, rand, hist,
                   libVars>>

\* a variant that increments the generation counter while it installs the
\* new population
ReplaceCounting ==
    /\ pc = "replace"
    /\ Population' = next
    /\ Generation' = Generation + 1
    /\ pc' = "inc"
    /\ UNCHANGED <<cfg, BestEver, heap, i, next, sem, wg, task,
                   p1, draws, rand, hist, libVars>>

\* ga.Population = next
Replace ==
    /\ pc = "replace"
    /\ Population' = next
    /\ pc' = "inc"
    /\ UNCHANGED <<cfg, Generation, BestEver, heap, i, next, sem, wg, task,
                   p1, draws, rand, hist, libVars>>

\* ga.Generation++, and Evolve returns
IncGeneration ==
    /\ pc = "inc"
    /\ Generation' = Generation + 1
    /\ pc' = "idle"
    /\ i' = 0
    /\ next' = <<>>
    /\ task' = [k \in 1..Len(Population) |-> "none"]
    /\ UNCHANGED <<cfg, Population, BestEver, heap, sem, wg, p1, draws, rand, hist,
                   libVars>>

Next ==
    \/ EvolveCall
    \/ WgAdd
    \/ SemSend
    \/ \E idx \in 1..Len(Population) : TaskCall(idx)
    \/ \E idx \in 1..Len(Population) : TaskReturn(idx)
    \/ \E idx \in 1..Len(Population) : TaskRelease(idx)
    \/ \E idx \in 1..Len(Population) : TaskDone(idx)
    \/ WgWait
    \/ Sort
    \/ TrackBest
    \/ Elitism
    \/ SelectP1
    \/ Breed
    \/ Replace
    \/ IncGeneration

Spec == Init /\ [][Next]_vars

\* the same GA under the configurations with several workers
SpecPar == InitPar /\ [][Next]_vars

\* the configurations of the runs under fair scheduling: three individuals
\* and zero, one or two workers, and a negative EliteCount
FairConfigs ==
    ParConfigs \cup {GAConfig(2, 1, 0, -1, 1, 0, 1)}

InitFair ==
    /\ InitGA(FairConfigs, {One \div 2})
    /\ rand = CoarseRand
    /\ call = NoCall
    /\ NoLib

\* the indices of the individuals of these runs
FairIndices == UNION {1..c.PopulationSize : c \in FairConfigs}

\* the Go scheduler runs every goroutine that can take a step: the thread
\* that called Evolve goes on once it is inside the call ...
CallerFairness ==
    /\ WF_vars(WgAdd)
    /\ WF_vars(SemSend)
    /\ WF_vars(WgWait)
    /\ WF_vars(Sort)
    /\ WF_vars(TrackBest)
    /\ WF_vars(Elitism)
    /\ WF_vars(SelectP1)
    /\ WF_vars(Breed)
    /\ WF_vars(Replace)
    /\ WF_vars(IncGeneration)

\* ... and so does every evaluation goroutine; every evaluate call returns
TaskFairness ==
    \A idx \in FairIndices :
        /\ WF_vars(idx \in DOMAIN task /\ TaskCall(idx))
        /\ WF_vars(idx \in DOMAIN task /\ TaskReturn(idx))
        /\ WF_vars(idx \in DOMAIN task /\ TaskRelease(idx))
        /\ WF_vars(idx \in DOMAIN task /\ TaskDone(idx))

SpecFair == InitFair /\ [][Next]_vars /\ CallerFairness /\ TaskFairness

(***************************************************************************)
(* Single calls of the pure functions                                      *)
(***************************************************************************)
\* the genes of the genomes the functions are called with:
\* 0.0, 1.0, 2.5, 3.5 and -3.5
CallGenes == {0, One, (5 * One) \div 2, (7 * One) \div 2, -((7 * One) \div 2)}

\* the genomes the functions are called with
CallGenomes == UNION {[1..n -> CallGenes] : n \in {1, 2}}

\* a GA that stays idle while a single function is called
InitIdleGA ==
    /\ InitGA({GAConfig(1, 1, 0, 1, 1, 0, 1)}, {One \div 2})
    /\ NoLib

\* a call blendCrossover(a, b) with parents of equal length is pending
InitBlend ==
    /\ InitIdleGA
    /\ rand = FullRand
    /\ \E a, b \in CallGenomes :
         /\ Len(a) = Len(b)
         /\ call = [op |-> "blendCrossover", a |-> a, b |-> b, ret |-> <<>>,
                    done |-> FALSE]

\* the call returns
BlendCall ==
    /\ call.op = "blendCrossover"
    /\ ~call.done
    /\ \E child \in blendCrossover(call.a, call.b, rand) :
         call' = [call EXCEPT !.ret = child, !.done = TRUE]
    /\ UNCHANGED <<gaVars, nets, sim>>

NextBlend == BlendCall

SpecBlend == InitBlend /\ [][NextBlend]_vars

\* the rates and the scales mutate is called with: 0.0, 0.5, 1.0
CallRates == {0, One \div 2, One}
CallScales == {0, One \div 2, One}

\* a call mutate(genome, rate, scale) is pending
InitMutate ==
    /\ InitIdleGA
    /\ rand = FullRand
    /\ \E g \in CallGenomes, rate \in CallRates, scale \in CallScales :
         call = [op |-> "mutate", genome |-> g, rate |-> rate,
                 scale |-> scale, ret |-> <<>>, done |-> FALSE]

\* the call returns; ret is the content of the genome slice afterwards
MutateCall ==
    /\ call.op = "mutate"
    /\ ~call.done
    /\ \E g \in mutate(call.genome, call.rate, call.scale, rand) :
         call' = [call EXCEPT !.ret = g, !.done = TRUE]
    /\ UNCHANGED <<gaVars, nets, sim>>

NextMutate == MutateCall

SpecMutate == InitMutate /\ [][NextMutate]_vars

(***************************************************************************)
(* Network: NewNetwork, Params, SetParams, Save, Load                      *)
(***************************************************************************)
\* a []float64 or []int of n zeros, as make returns it
Zeros(n) == [k \in 1..n |-> 0]

\* copy(dst, src): the content of dst afterwards; min(len(dst), len(src))
\* elements are copied
Copy(dst, src) ==
    [k \in 1..Len(dst) |-> IF k <= Len(src) THEN src[k] ELSE dst[k]]

\* the loop of paramCounts from transition k on, added to w and b
RECURSIVE paramCountsLoop(_, _, _, _)
paramCountsLoop(layers, k, w, b) ==
    IF k > Len(layers) - 1 THEN [w |-> w, b |-> b]
    ELSE paramCountsLoop(layers, k + 1, w + layers[k] * layers[k + 1],
                         b + layers[k + 1])

\* the number of weights and of biases of the layer widths
paramCounts(layers) == paramCountsLoop(layers, 1, 0, 0)

\* NewNetwork(layers...): it panics with fewer than two layers, and returns
\* a Network with a copy of the widths and zero parameters otherwise
NewNetwork(layers) ==
    IF Len(layers) < 2 THEN [net |-> NilNet, panicked |-> TRUE]
    ELSE [net |-> [Layers |-> layers,
                   Weights |-> Zeros(paramCounts(layers).w),
                   Biases |-> Zeros(paramCounts(layers).b)],
          panicked |-> FALSE]

WeightCount(n) == Len(n.Weights) + Len(n.Biases)

\* a variant that returns the biases before the weights
ParamsBiasesFirst(n) == n.Biases \o n.Weights

\* n.Params(): a new vector, the weights copied to its front and the biases
\* behind them
Params(n) ==
    LET out == Zeros(Len(n.Weights) + Len(n.Biases))
        front == Copy(out, n.Weights)
    IN  SubSeq(front, 1, Len(n.Weights))
            \o Copy(SubSeq(front, Len(n.Weights) + 1, Len(front)), n.Biases)

\* a slice value: its elements are arr[1..len], its capacity is Len(arr)
SliceOf(s) == [arr |-> s, len |-> Len(s)]

\* n.SetParams(params): the Network afterwards, and whether the call
\* panicked.  params[:len(n.Weights)] panics when len(n.Weights) exceeds the
\* capacity of params, and may reach past its length; params[len(n.Weights):]
\* panics when len(n.Weights) exceeds the length of params, after the
\* weights were written.
SetParams(n, params) ==
    LET lw == Len(n.Weights)
    IN  IF lw > Len(params.arr) THEN [net |-> n, panicked |-> TRUE]
        ELSE LET n1 == [n EXCEPT
                          !.Weights = Copy(@, SubSeq(params.arr, 1, lw))]
             IN  IF lw > params.len THEN [net |-> n1, panicked |-> TRUE]
                 ELSE [net |-> [n1 EXCEPT
                                  !.Biases = Copy(@, SubSeq(params.arr, lw + 1,
                                                            params.len))],
                       panicked |-> FALSE]

\* the fields of networkData, in the order gob transmits them
GobFields == <<"Layers", "Weights", "Biases">>

\* gob transmits the fields that are not empty
GobWire(d) == {k \in 1..Len(GobFields) : d[GobFields[k]] # <<>>}

\* the networkData after the first k fields of a transmission of d have
\* been stored into the zero value
GobStored(d, k) ==
    [f \in {GobFields[j] : j \in 1..Len(GobFields)} |->
        IF \E j \in GobWire(d) : j <= k /\ GobFields[j] = f THEN d[f]
        ELSE <<>>]

\* n.Save(w): the stream written, a complete gob transmission of the triple
Save(n) ==
    [kind |-> "gob",
     data |-> [Layers |-> n.Layers, Weights |-> n.Weights,
               Biases |-> n.Biases]]

\* dec.Decode(&data): the error and the content of data afterwards.  A
\* complete transmission is stored without error; a transmission that is
\* cut short or corrupt gives an error after none or some of the fields
\* have been stored.
Decode(stream) ==
    IF stream.kind = "gob"
    THEN {[err |-> FALSE, data |-> GobStored(stream.data, Len(GobFields))]}
    ELSE {[err |-> TRUE, data |-> GobStored(stream.data, k)] :
             k \in 0..(Len(GobFields) - 1)}

\* the Network built from a networkData
FromData(data) ==
    [Layers |-> data.Layers, Weights |-> data.Weights, Biases |-> data.Biases]

\* a variant that returns the Network whatever Decode reported
LoadKeepsData(stream) ==
    {[net |-> FromData(r.data), err |-> r.err] : r \in Decode(stream)}

\* Load(r): the pointer and the error it can return
Load(stream) ==
    {IF r.err THEN [net |-> NilNet, err |-> TRUE]
     ELSE [net |-> FromData(r.data), err |-> FALSE] : r \in Decode(stream)}

\* the layer widths NewNetwork is called with
CallLayers == {<<1>>, <<1, 1>>, <<2, 1>>}

\* the parameter values the caller provides: 0.0 and 1.0
ParamValues == {0, One}

\* the arrays behind the vectors SetParams is called with
ParamArrays == UNION {[1..c -> ParamValues] : c \in {1, 3}}

\* the vectors SetParams is called with: the slices of length 1 and more of
\* arrays of one or three elements
ParamSlices ==
    UNION {{[arr |-> a, len |-> l] : l \in 1..Len(a)} : a \in ParamArrays}

\* the triples the streams given to Load transmit, consistent or not
StreamData ==
    {[Layers |-> l, Weights |-> w, Biases |-> <<One>>] :
        l \in {<<1, 1>>, <<2, 1>>}, w \in {<<One>>, <<One, One>>}}

\* the streams Load is called with: complete, cut short, corrupt
Streams ==
    {[kind |-> k, data |-> d] :
        k \in {"gob", "truncated", "malformed"}, d \in StreamData}

\* no Network exists yet
InitNet ==
    /\ InitIdleGA
    /\ rand = FullRand
    /\ call = NoCall

\* x = NewNetwork(layers...)
NewNetworkCall(x, layers) ==
    LET r == NewNetwork(layers)
    IN  /\ nets' = [obj |-> IF r.panicked THEN nets.obj
                            ELSE [nets.obj EXCEPT ![x] = r.net],
                    last |-> [op |-> "NewNetwork", target |-> x,
                              layers |-> layers, panicked |-> r.panicked]]
        /\ UNCHANGED <<gaVars, call, sim>>

\* x.Params()
ParamsCall(x) ==
    /\ nets.obj[x] # NilNet
    /\ nets' = [nets EXCEPT !.last = [op |-> "Params", target |-> x,
                                      ret |-> Params(nets.obj[x])]]
    /\ UNCHANGED <<gaVars, call, sim>>

\* the vectors a caller has: its own, and the one Params returned last
CallerSlices ==
    ParamSlices
    \cup (IF nets.last.op = "Params" THEN {SliceOf(nets.last.ret)} ELSE {})

\* x.SetParams(params)
SetParamsCall(x, params) ==
    /\ nets.obj[x] # NilNet
    /\ LET r == SetParams(nets.obj[x], params)
       IN  nets' = [obj |-> [nets.obj EXCEPT ![x] = r.net],
                    last |-> [op |-> "SetParams", target |-> x,
                              params |-> params, panicked |-> r.panicked]]
    /\ UNCHANGED <<gaVars, call, sim>>

\* x.Save(w)
SaveCall(x) ==
    /\ nets.obj[x] # NilNet
    /\ nets' = [nets EXCEPT !.last = [op |-> "Save", target |-> x,
                                      stream |-> Save(nets.obj[x])]]
    /\ UNCHANGED <<gaVars, call, sim>>

\* the streams a caller has: its own, and the one Save wrote last, complete
\* or cut short
CallerStreams ==
    Streams
    \cup (IF nets.last.op = "Save"
          THEN {nets.last.stream,
                [nets.last.stream EXCEPT !.kind = "truncated"]}
          ELSE {})

\* x, err = Load(r)
LoadCall(x, stream) ==
    /\ \E r \in Load(stream) :
         nets' = [obj |-> [nets.obj EXCEPT ![x] = r.net],
                  last |-> [op |-> "Load", target |-> x, stream |-> stream,
                            net |-> r.net, err |-> r.err]]
    /\ UNCHANGED <<gaVars, call, sim>>

NextNet ==
    \/ \E x \in NetNames, layers \in CallLayers : NewNetworkCall(x, layers)
    \/ \E x \in NetNames : ParamsCall(x)
    \/ \E x \in NetNames, params \in CallerSlices : SetParamsCall(x, params)
    \/ \E x \in NetNames : SaveCall(x)
    \/ \E x \in NetNames, stream \in CallerStreams : LoadCall(x, stream)

SpecNet == InitNet /\ [][NextNet]_vars

(***************************************************************************)
(* Network.Forward and NeuralAgent.Act                                     *)
(***************************************************************************)
\* x / y on float64, for y > 0
FDiv(x, y) == Round(x * Scale, y)

\* e^x for x = -32/16, -31/16, ..., 32/16, in units of 1/4096
ExpTable ==
    <<
      554, 590, 628, 669, 712, 758, 807, 859, 914, 973, 1036, 1102, 1174,
       1249, 1330, 1416, 1507, 1604, 1707, 1818, 1935, 2060, 2192, 2334,
       2484, 2645, 2815, 2997, 3190, 3396, 3615, 3848, 4096, 4360, 4641,
       4941, 5259, 5599, 5960, 6344, 6753, 7189, 7652, 8146, 8671, 9230,
       9826, 10460, 11134, 11852, 12617, 13430, 14296, 15218, 16200, 17245,
       18357, 19541, 20801, 22143, 23571, 25091, 26709, 28432, 30266
    >>

\* tanh(x) for x = 0/16, 1/16, ..., 32/16, in units of 1/4096
TanhTable ==
    <<
      0, 256, 509, 759, 1003, 1240, 1468, 1686, 1893, 2088, 2272, 2443,
       2602, 2748, 2883, 3007, 3119, 3222, 3315, 3399, 3475, 3543, 3604,
       3659, 3707, 3751, 3790, 3825, 3856, 3883, 3908, 3929, 3949
    >>

\* math.Exp(x) for -2 <= x <= 2: e^x rounded to a float64
MathExp(x) == Round(ExpTable[(16 * x) \div Scale + 33] * Scale, 4096)

\* math.Tanh(x) for -2 <= x <= 2: tanh is odd
MathTanh(x) ==
    IF x < 0 THEN -Round(TanhTable[(16 * (-x)) \div Scale + 1] * Scale, 4096)
    ELSE Round(TanhTable[(16 * x) \div Scale + 1] * Scale, 4096)

Tanh(x) == MathTanh(x)

Sigmoid(x) == FDiv(One, FAdd(One, MathExp(-x)))

\* the values `sum` can have after the iterations k, k+1, ... of the inner
\* loop, S being the values it can have before them; base is wOff + j, and
\* each `sum += current[i] * w` is rounded twice or fused
RECURSIVE ForwardSum(_, _, _, _, _, _)
ForwardSum(n, current, base, outSize, k, S) ==
    IF k >= Len(current) THEN S
    ELSE ForwardSum(n, current, base, outSize, k + 1,
             UNION {{FAdd(s, FMul(current[k + 1],
                                  n.Weights[base + k * outSize + 1])),
                     FMA(current[k + 1], n.Weights[base + k * outSize + 1], s)} :
                    s \in S})

\* the vectors `next` can be after the loop over j of transition l
ForwardLayer(n, current, l, wOff, bOff) ==
    LET outSize == n.Layers[l + 2]
        act(s) == IF l = Len(n.Layers) - 2 THEN Sigmoid(s) ELSE Tanh(s)
    IN  SeqProduct([j \in 1..outSize |->
                       {act(s) : s \in ForwardSum(n, current, wOff + j - 1,
                                                  outSize, 0,
                                                  {n.Biases[bOff + j]})}],
                   outSize)

\* the vectors Forward can return when it enters transition l with current
RECURSIVE ForwardFrom(_, _, _, _, _)
ForwardFrom(n, current, l, wOff, bOff) ==
    IF l >= Len(n.Layers) - 1 THEN {current}
    ELSE UNION {ForwardFrom(n, nx, l + 1,
                            wOff + n.Layers[l + 1] * n.Layers[l + 2],
                            bOff + n.Layers[l + 2]) :
                nx \in ForwardLayer(n, current, l, wOff, bOff)}

\* n.Forward(input), for an input of n.Layers[0] values
Forward(n, input) == ForwardFrom(n, input, 0, 0, 0)

\* the Threshold NewNeuralAgent sets: 0.5
DefaultThreshold == One \div 2

\* a variant that also sets a flag when the output equals the threshold
AIActionInclusive(out, threshold) ==
    [RotateLeft |-> out[1] >= threshold, RotateRight |-> out[2] >= threshold,
     Thrust |-> out[3] >= threshold, Shoot |-> out[4] >= threshold,
     Hyperspace |-> out[5] >= threshold]

\* the AIAction that Act builds from the outputs of the network
AIActionOf(out, threshold) ==
    [RotateLeft |-> out[1] > threshold, RotateRight |-> out[2] > threshold,
     Thrust |-> out[3] > threshold, Shoot |-> out[4] > threshold,
     Hyperspace |-> out[5] > threshold]

\* the layer widths of the agents' networks: five outputs, one input
ActLayers == {<<1, 5>>, <<1, 1, 5>>}

\* the biases -1.0, -0.5, 0.0, 0.5, 1.0, repeated to n values
RampBiases(n) == [k \in 1..n |-> ((k % 5) - 2) * (One \div 2)]

\* the network of widths l whose weights are all w and whose biases are
\* zero or the ramp: NewNetwork followed by SetParams
ActNet(l, w, ramp) ==
    LET c == paramCounts(l)
    IN  SetParams(NewNetwork(l).net,
                  SliceOf([k \in 1..c.w |-> w]
                          \o (IF ramp THEN RampBiases(c.b) ELSE Zeros(c.b)))).net

\* the networks of the agents
ActNets ==
    {ActNet(l, w, ramp) : l \in ActLayers, w \in {-One, 0, One},
                          ramp \in BOOLEAN}

\* the thresholds of the agents: 0.375, 0.5, 0.625
ActThresholds == {(3 * One) \div 8, DefaultThreshold, (5 * One) \div 8}

\* the observations Act is called with
ActObservations == {<<0>>, <<One \div 2>>, <<One>>, <<-One>>}

\* a call a.Act(observation) is pending
InitAct ==
    /\ InitIdleGA
    /\ rand = FullRand
    /\ \E n \in ActNets, t \in ActThresholds, o \in ActObservations :
         call = [op |-> "Act", Net |-> n, Threshold |-> t, observation |-> o,
                 out |-> <<>>, ret |-> <<>>, done |-> FALSE]

\* the call returns; out is what Forward returned to it
ActCall ==
    /\ call.op = "Act"
    /\ ~call.done
    /\ \E out \in Forward(call.Net, call.observation) :
         call' = [call EXCEPT !.out = out,
                              !.ret = AIActionOf(out, call.Threshold),
                              !.done = TRUE]
    /\ UNCHANGED <<gaVars, nets, sim>>

NextAct == ActCall

SpecAct == InitAct /\ [][NextAct]_vars

(***************************************************************************)
(* WrapDelta                                                               *)
(***************************************************************************)
\* a variant that never wraps
WrapDeltaPlain(a, b, size) == FSub(b, a)

\* WrapDelta(a, b, size)
WrapDelta(a, b, size) ==
    LET d == FSub(b, a)
    IN  IF d > FDiv(size, 2 * One) THEN FSub(d, size)
        ELSE IF d < FDiv(-size, 2 * One) THEN FAdd(d, size)
        ELSE d

\* the axis lengths WrapDelta is called with: 1.0, 3.0, 4.0
WrapSizes == {One, 3 * One, 4 * One}

\* the float64 values from 0 to size
Positions(size) == {x \in 0..size : Representable(x)}

\* a call WrapDelta(a, b, size) with a and b in [0, size] is pending
InitWrap ==
    /\ InitIdleGA
    /\ rand = FullRand
    /\ \E size \in WrapSizes :
         \E a, b \in Positions(size) :
            call = [op |-> "WrapDelta", a |-> a, b |-> b, size |-> size,
                    ret |-> 0, done |-> FALSE]

\* the call returns
WrapDeltaCall ==
    /\ call.op = "WrapDelta"
    /\ ~call.done
    /\ call' = [call EXCEPT !.ret = WrapDelta(call.a, call.b, call.size),
                            !.done = TRUE]
    /\ UNCHANGED <<gaVars, nets, sim>>

NextWrap == WrapDeltaCall

SpecWrap == InitWrap /\ [][NextWrap]_vars

(***************************************************************************)
(* The simulation harness: RunSimulation, runOnce and the systems of a     *)
(* headless tick.                                                          *)
(*                                                                         *)
(* The World is modelled along the vertical line through the player.  The  *)
(* agents of the model never rotate, thrust or jump, so the player stays   *)
(* at the centre of the screen, at rest and facing up, and its bullets fly *)
(* up that line.  The asteroids that are on the line move along it; the    *)
(* other asteroids of a wave (`far`) move on parallel lines that never     *)
(* come within reach of the player, of its bullets or of its sensors.  No  *)
(* run lasts the 600 ticks the first saucer needs.  Positions are integers *)
(* in units of 1/Sub pixel; the float64 values of the harness (fitness,    *)
(* shaping reward, observations) are integers in units of 1/Milli.         *)
(***************************************************************************)
\* a pixel has Sub position units
Sub == 4

\* 1.0 has Milli units
Milli == 1000

ScreenHeight == 600 * Sub
playerRadius == 15 * Sub
bulletSpeed == 7 * Sub
bulletLife == 60
MaxPlayerBullets == 4
saucerRespawnDelay == 600
SizeLarge == 0
SizeMedium == 1
SizeSmall == 2

\* the y coordinate of the player: ScreenHeight/2
PlayerY == ScreenHeight \div 2

\* a / b rounded to the nearest integer, for b > 0
RoundDiv(a, b) ==
    IF a >= 0 THEN (2 * a + b) \div (2 * b) ELSE -((2 * (-a) + b) \div (2 * b))

\* a / b on Go's int, for b > 0: the quotient is truncated toward zero
GoDiv(a, b) == IF a >= 0 THEN a \div b ELSE -((-a) \div b)

\* the radius SpawnAsteroid gives an asteroid of a size
AsteroidRadius(size) ==
    IF size = SizeLarge THEN 40 * Sub
    ELSE IF size = SizeMedium THEN 20 * Sub
    ELSE 10 * Sub

\* the points of an asteroid of a size
AsteroidScore(size) ==
    IF size = SizeLarge THEN 20 ELSE IF size = SizeMedium THEN 50 ELSE 100

\* the velocities along the line that SpawnAsteroid draws in the model for
\* the two halves of a split asteroid: 1.0 and 2.0 pixels per tick for a
\* medium one, 1.5 and 3.0 for a small one, up or down
FragmentVelocities(size) ==
    IF size = SizeMedium THEN {-(2 * Sub), Sub}
    ELSE {-((3 * Sub) \div 2), 3 * Sub}

\* the all-false AIAction
NoAction ==
    [RotateLeft |-> FALSE, RotateRight |-> FALSE, Thrust |-> FALSE,
     Shoot |-> FALSE, Hyperspace |-> FALSE]

\* agent.Act(obs) of the agents of the model: `static` returns the all-false
\* action, `shooter` presses Shoot on every tick
AgentAct(agent, obs) ==
    IF agent = "shooter" THEN [NoAction EXCEPT !.Shoot = TRUE] ELSE NoAction

\* the elements of s whose index is not in D, in order
RECURSIVE KeepFrom(_, _, _)
KeepFrom(s, D, k) ==
    IF k > Len(s) THEN <<>>
    ELSE (IF k \in D THEN <<>> ELSE <<s[k]>>) \o KeepFrom(s, D, k + 1)

\* the nil *SaucerInfo
NoSaucer == [nil |-> TRUE]

\* NewWorld() and the assignments of runOnce, then SpawnPlayer at the centre
RunWorld ==
    [Score |-> 0, Lives |-> 3, NextExtraLifeAt |-> 10000, Level |-> 1,
     SaucerSpawnTimer |-> 600, SaucerActive |-> FALSE,
     player |-> [alive |-> TRUE, Invulnerable |-> TRUE,
                 InvulnerableTimer |-> 120, ShootPressed |-> FALSE,
                 Angle |-> 0, vx |-> 0, vy |-> 0, Thrusting |-> FALSE,
                 HyperspacePressed |-> FALSE, HyperspaceCooldown |-> 0],
     asteroids |-> <<>>, far |-> 0, bullets |-> <<>>,
     saucer |-> NoSaucer, saucerBullets |-> <<>>, SoundQueue |-> <<>>]

\* spawnWave: 3 + Level large asteroids, those of placement p on the line
\* and the others far from it
spawnWave(w, p) ==
    [w EXCEPT !.asteroids = @ \o [k \in 1..Len(p) |->
                                     [y |-> p[k].y, vy |-> p[k].vy,
                                      size |-> SizeLarge]],
              !.far = @ + (3 + w.Level) - Len(p)]

\* a large asteroid at y pixels from the top that moves v quarter pixels a
\* tick down the line
OnLine(y, v) == [y |-> y * Sub, vy |-> v]

\* the placements and motions of a wave in the model; spawnWave places an
\* asteroid more than 150 pixels from the player and SpawnAsteroid gives a
\* large one a speed of 0.5 to 1.5 pixels a tick:
\*   none on the line;
\*   one that comes down on the player at 1.25 pixels a tick;
\*   three that are over the player at ticks 119, 239 and 359;
\*   one above the player that comes down at 0.5 pixels a tick
Placements ==
    {<<>>,
     <<OnLine(149, 5)>>,
     <<OnLine(149, 4), OnLine(560, -4), OnLine(100, 2)>>,
     <<OnLine(100, 2)>>}

\* WrapDelta on exact positions
WrapDeltaPx(a, b, size) ==
    LET d == b - a
    IN  IF 2 * d > size THEN d - size
        ELSE IF 2 * d < -size THEN d + size
        ELSE d

\* the urgency ExtractObservation computes for asteroid a, in 1/Milli: the
\* player is at rest, so the relative velocity is the asteroid's, the time
\* of closest approach is tCPA = -dy/vy, the miss distance is 0, and the
\* urgency is 1/(1 + tCPA/30)
Urgency(a) ==
    LET dy == WrapDeltaPx(PlayerY, a.y, ScreenHeight)
        rvSq == a.vy * a.vy
        t == -(dy * a.vy)     \* tCPA * rvSq
    IN  IF 100 * rvSq < Sub * Sub THEN 0
        ELSE IF t < 0 \/ t > 120 * rvSq THEN 0
        ELSE RoundDiv(Milli * 30 * rvSq, 30 * rvSq + t)

\* obs[38]: the greatest urgency
RECURSIVE BestUrgency(_, _, _)
BestUrgency(asteroids, k, best) ==
    IF k > Len(asteroids) THEN best
    ELSE BestUrgency(asteroids, k + 1,
                     IF Urgency(asteroids[k]) > best
                     THEN Urgency(asteroids[k]) ELSE best)

\* obs[36], in 1/Milli: an asteroid at least a pixel away whose predicted
\* position is within a pixel of the player, or above it and so straight
\* ahead, gives quality 1; every other asteroid gives nothing
LineOfFire(asteroids) ==
    IF \E k \in 1..Len(asteroids) :
          LET dy == WrapDeltaPx(PlayerY, asteroids[k].y, ScreenHeight)
          IN  /\ Abs(dy) >= Sub
              /\ dy * bulletSpeed + asteroids[k].vy * Abs(dy) < Sub * bulletSpeed
    THEN Milli ELSE 0

\* half the diagonal of the screen: sqrt(800^2 + 600^2) / 2 = 500 pixels
halfDiag == 500 * Sub

\* the speed limit of the player, 5 pixels a tick
maxSpeed == 5 * Sub

\* ObservationSize
ObservationSize == 40

\* w.ActiveSaucer()
ActiveSaucer(w) == IF w.SaucerActive THEN w.saucer ELSE NoSaucer

\* the urgency ExtractObservation computes for saucer bullet sb, in
\* 1/Milli: as for an asteroid, with tCPA up to 90 and 1/(1 + tCPA/20)
SaucerBulletUrgency(sb) ==
    LET dy == WrapDeltaPx(PlayerY, sb.y, ScreenHeight)
        rvSq == sb.vy * sb.vy
        t == -(dy * sb.vy)     \* tCPA * rvSq
    IN  IF 100 * rvSq < Sub * Sub THEN 0
        ELSE IF t < 0 \/ t > 90 * rvSq THEN 0
        ELSE RoundDiv(Milli * 20 * rvSq, 20 * rvSq + t)

\* the loop over the saucer bullets that goes on from the greatest urgency
\* of the asteroids
RECURSIVE BestBulletUrgency(_, _, _)
BestBulletUrgency(sBullets, k, best) ==
    IF k > Len(sBullets) THEN best
    ELSE BestBulletUrgency(sBullets, k + 1,
                           IF SaucerBulletUrgency(sBullets[k]) > best
                           THEN SaucerBulletUrgency(sBullets[k]) ELSE best)

\* aobs: for every asteroid its offset from the player with wrap-around,
\* its velocity relative to the player, its distance and its urgency; the
\* order of w.Asteroids() is the order of a map and can be any
asteroidObs(w) ==
    [k \in 1..Len(w.asteroids) |->
        LET dy == WrapDeltaPx(PlayerY, w.asteroids[k].y, ScreenHeight)
        IN  [dy |-> dy, dvy |-> w.asteroids[k].vy, dist |-> Abs(dy),
             urgency |-> Urgency(w.asteroids[k])]]

\* the inner loop of the sort: the first index from j on whose asteroid is
\* nearer than that of minIdx, and so on
RECURSIVE MinIdx(_, _, _)
MinIdx(aobs, j, minIdx) ==
    IF j > Len(aobs) THEN minIdx
    ELSE MinIdx(aobs, j + 1, IF aobs[j].dist < aobs[minIdx].dist THEN j ELSE minIdx)

\* the `Sort top-5 nearest` loop from position k on
RECURSIVE SortNearest(_, _)
SortNearest(aobs, k) ==
    IF k > Min(5, Len(aobs)) THEN aobs
    ELSE LET m == MinIdx(aobs, k + 1, k)
         IN  SortNearest([aobs EXCEPT ![k] = aobs[m], ![m] = aobs[k]], k + 1)

\* a variant that repeats the farthest asteroid in the slots that are left
AsteroidSlotRepeating(aobs, slot, field) ==
    IF aobs = <<>> THEN 0
    ELSE IF field = 1 THEN RoundDiv(aobs[Min(slot, Len(aobs))].dy * Milli, halfDiag)
    ELSE IF field = 3 THEN RoundDiv(aobs[Min(slot, Len(aobs))].dvy * Milli, maxSpeed)
    ELSE 0

\* obs[8 + 4 * (slot - 1) + field]: dx, dy over halfDiag and dvx, dvy over
\* maxSpeed of the asteroid of a slot; dx and dvx are 0 on the line
AsteroidSlot(aobs, slot, field) ==
    IF slot > Len(aobs) THEN 0
    ELSE IF field = 1 THEN RoundDiv(aobs[slot].dy * Milli, halfDiag)
    ELSE IF field = 3 THEN RoundDiv(aobs[slot].dvy * Milli, maxSpeed)
    ELSE 0

\* the saucer bullet nearest to the player: the first of the least distance
RECURSIVE NearestBullet(_, _, _)
NearestBullet(sBullets, k, best) ==
    IF k > Len(sBullets) THEN best
    ELSE NearestBullet(sBullets, k + 1,
            IF Abs(WrapDeltaPx(PlayerY, sBullets[k].y, ScreenHeight))
                  < Abs(WrapDeltaPx(PlayerY, sBullets[best].y, ScreenHeight))
            THEN k ELSE best)

\* obs[34]: the angle from the heading of the player, straight up, to the
\* predicted position of the nearest asteroid, over pi: 0 above the player,
\* 1 below it, 1/2 at the player itself (math.Atan2(0, 0) = 0)
LeadAngleError(nd) ==
    LET lead == nd.dy * bulletSpeed + nd.dvy * nd.dist
    IN  IF lead < 0 THEN 0 ELSE IF lead > 0 THEN Milli ELSE Milli \div 2

\* the relative velocity of the body that set bestUrgency last, in the
\* order of the loops: the sorted asteroids, then the saucer bullets
RECURSIVE DodgeFrom(_, _, _, _)
DodgeFrom(threats, k, best, rvy) ==
    IF k > Len(threats) THEN rvy
    ELSE IF threats[k].urgency > best
         THEN DodgeFrom(threats, k + 1, threats[k].urgency, threats[k].rvy)
         ELSE DodgeFrom(threats, k + 1, best, rvy)

\* obs[39]: the dodge direction is across the path of the threat, to the
\* left of a player that faces up when the threat comes down and to the
\* right when it comes up: -1/2 or 1/2
DodgeAngleError(aobs, sBullets) ==
    LET threats == [k \in 1..Len(aobs) |->
                       [urgency |-> aobs[k].urgency, rvy |-> aobs[k].dvy]]
                   \o [k \in 1..Len(sBullets) |->
                          [urgency |-> SaucerBulletUrgency(sBullets[k]),
                           rvy |-> sBullets[k].vy]]
    IN  IF DodgeFrom(threats, 1, 0, 0) > 0 THEN -(Milli \div 2) ELSE Milli \div 2

\* ExtractObservation for a World with a player: the observation vector,
\* in 1/Milli.  The player is at the centre, at rest and faces up.  The
\* asteroids that are not on the line have no part in it: runOnce reads
\* obs[35], obs[36] and obs[38], to which they add nothing.
ExtractObservation(w) ==
    LET aobs == SortNearest(asteroidObs(w), 1)
        saucer == ActiveSaucer(w)
        sBullets == w.saucerBullets
        bestUrgency == BestBulletUrgency(sBullets, 1, BestUrgency(w.asteroids, 1, 0))
    IN  [k \in 0..(ObservationSize - 1) |->
           IF k \in {0, 1, 2, 3, 5} THEN 0
           ELSE IF k = 4 THEN -Milli
           ELSE IF k = 6 THEN (IF w.player.Invulnerable THEN Milli ELSE 0)
           ELSE IF k = 7 THEN RoundDiv(Len(w.bullets) * Milli, MaxPlayerBullets)
           ELSE IF k \in 8..27 THEN AsteroidSlot(aobs, (k - 8) \div 4 + 1, (k - 8) % 4)
           ELSE IF k = 28 THEN (IF saucer = NoSaucer THEN 0 ELSE Milli)
           ELSE IF k = 30 /\ saucer # NoSaucer
                THEN RoundDiv(WrapDeltaPx(PlayerY, saucer.y, ScreenHeight) * Milli, halfDiag)
           ELSE IF k = 32 /\ sBullets # <<>>
                THEN RoundDiv(WrapDeltaPx(PlayerY, sBullets[NearestBullet(sBullets, 1, 1)].y,
                                          ScreenHeight) * Milli, halfDiag)
           ELSE IF k = 33 THEN RoundDiv(w.Lives * Milli, 5)
           ELSE IF k = 34 /\ aobs # <<>> THEN LeadAngleError(aobs[1])
           ELSE IF k = 36 /\ aobs # <<>> THEN LineOfFire(w.asteroids)
           ELSE IF k = 37 /\ aobs # <<>> THEN RoundDiv(aobs[1].dist * Milli, halfDiag)
           ELSE IF k = 38 THEN bestUrgency
           ELSE IF k = 39 /\ bestUrgency > 0 THEN DodgeAngleError(aobs, sBullets)
           ELSE 0]

\* AIInputSystem for an action without rotation and thrust
\* thrustPower, in thousandths of a pixel per tick
thrustPower == 120

\* cos and sin, in 1/Milli, of rot.Angle; Angle counts the steps of
\* rotationSpeed = 0.05 from -Pi/2, the angle of a player that faces up
CosAngle(k) ==
    IF k = 0 THEN 0
    ELSE IF k = 1 THEN 50 ELSE IF k = -1 THEN -50
    ELSE IF k = 2 THEN 100 ELSE -100

SinAngle(k) == IF k = 0 THEN -Milli ELSE IF k \in {-1, 1} THEN -999 ELSE -995

\* math.Sqrt on integers: the r in lo..hi with r*r <= n < (r+1)*(r+1)
RECURSIVE ISqrt(_, _, _)
ISqrt(n, lo, hi) ==
    IF lo >= hi THEN lo
    ELSE LET mid == (lo + hi + 1) \div 2
         IN  IF mid * mid <= n THEN ISqrt(n, mid, hi)
             ELSE ISqrt(n, lo, mid - 1)

\* the velocity, in thousandths of a pixel per tick, after a tick of thrust
\* at the angle: thrustPower is added along the angle and the speed is
\* capped at maxSpeed
Thrust(vx, vy, angle) ==
    LET x == vx + RoundDiv(CosAngle(angle) * thrustPower, Milli)
        y == vy + RoundDiv(SinAngle(angle) * thrustPower, Milli)
        speed == ISqrt(x * x + y * y, 0, 10 * Milli)
        top == (maxSpeed * Milli) \div Sub
    IN  IF speed > top
        THEN <<RoundDiv(x * top, speed), RoundDiv(y * top, speed)>>
        ELSE <<x, y>>

\* vel *= friction, with friction = 0.99
Friction(v) == RoundDiv(v * 99, 100)

AIInputSystem(w, action) ==
    IF w.player.alive
    THEN LET angle == w.player.Angle - (IF action.RotateLeft THEN 1 ELSE 0)
                                     + (IF action.RotateRight THEN 1 ELSE 0)
             vel == IF action.Thrust
                    THEN Thrust(w.player.vx, w.player.vy, angle)
                    ELSE <<w.player.vx, w.player.vy>>
         IN  [w EXCEPT !.player.Angle = angle,
                       !.player.Thrusting = action.Thrust,
                       !.player.vx = Friction(vel[1]),
                       !.player.vy = Friction(vel[2]),
                       !.player.ShootPressed = action.Shoot,
                       !.player.HyperspacePressed = action.Hyperspace]
    ELSE w

\* InputSystem without the HyperspacePressed assignment
InputSystemNoHyperspace(w, keys) ==
    IF w.player.alive
    THEN LET angle == w.player.Angle
                      - (IF "Left" \in keys \/ "A" \in keys THEN 1 ELSE 0)
                      + (IF "Right" \in keys \/ "D" \in keys THEN 1 ELSE 0)
             Thrusting == "Up" \in keys \/ "W" \in keys
             vel == IF Thrusting
                    THEN Thrust(w.player.vx, w.player.vy, angle)
                    ELSE <<w.player.vx, w.player.vy>>
         IN  [w EXCEPT !.player.Angle = angle,
                       !.player.Thrusting = Thrusting,
                       !.player.vx = Friction(vel[1]),
                       !.player.vy = Friction(vel[2]),
                       !.player.ShootPressed = "Space" \in keys]
    ELSE w

\* InputSystem; keys holds the keys that are pressed (Left, A, Right, D, Up
\* and W) and the keys that were just pressed (Space, ShiftLeft, ShiftRight)
InputSystem(w, keys) ==
    IF w.player.alive
    THEN LET angle == w.player.Angle
                      - (IF "Left" \in keys \/ "A" \in keys THEN 1 ELSE 0)
                      + (IF "Right" \in keys \/ "D" \in keys THEN 1 ELSE 0)
             Thrusting == "Up" \in keys \/ "W" \in keys
             vel == IF Thrusting
                    THEN Thrust(w.player.vx, w.player.vy, angle)
                    ELSE <<w.player.vx, w.player.vy>>
         IN  [w EXCEPT !.player.Angle = angle,
                       !.player.Thrusting = Thrusting,
                       !.player.vx = Friction(vel[1]),
                       !.player.vy = Friction(vel[2]),
                       !.player.ShootPressed = "Space" \in keys,
                       !.player.HyperspacePressed =
                           "ShiftLeft" \in keys \/ "ShiftRight" \in keys]
    ELSE w

WrapY(y) ==
    IF y < 0 THEN y + ScreenHeight
    ELSE IF y > ScreenHeight THEN y - ScreenHeight
    ELSE y

PhysicsSystem(w) ==
    [w EXCEPT !.asteroids = [k \in 1..Len(@) |-> [@[k] EXCEPT !.y = @ + w.asteroids[k].vy]],
              !.bullets = [k \in 1..Len(@) |-> [@[k] EXCEPT !.y = @ - bulletSpeed]]]

WrapSystem(w) ==
    [w EXCEPT !.asteroids = [k \in 1..Len(@) |-> [@[k] EXCEPT !.y = WrapY(@)]],
              !.bullets = [k \in 1..Len(@) |-> [@[k] EXCEPT !.y = WrapY(@)]]]

InvulnerabilitySystem(w) ==
    IF w.player.alive /\ w.player.Invulnerable
    THEN [w EXCEPT !.player.InvulnerableTimer = @ - 1,
                   !.player.Invulnerable = w.player.InvulnerableTimer - 1 > 0]
    ELSE w

LifetimeSystem(w) ==
    [w EXCEPT !.bullets =
        KeepFrom([k \in 1..Len(@) |-> [@[k] EXCEPT !.Life = @ - 1]],
                 {k \in 1..Len(@) : @[k].Life - 1 <= 0}, 1)]

SaucerSpawnSystem(w) ==
    IF w.SaucerActive THEN w
    ELSE IF w.SaucerSpawnTimer - 1 <= 0
         THEN [w EXCEPT !.SaucerActive = TRUE,
                        !.SaucerSpawnTimer = saucerRespawnDelay]
         ELSE [w EXCEPT !.SaucerSpawnTimer = @ - 1]

\* a variant that still shoots with MaxPlayerBullets bullets in flight
ShootingSystemAtCap(w) ==
    IF /\ w.player.alive
       /\ w.player.ShootPressed
       /\ Len(w.bullets) <= MaxPlayerBullets
    THEN [w EXCEPT !.bullets = Append(@, [y |-> PlayerY - playerRadius,
                                          Life |-> bulletLife])]
    ELSE w

\* SpawnBullet: at the nose of the player, which faces up
ShootingSystem(w) ==
    IF /\ w.player.alive
       /\ w.player.ShootPressed
       /\ Len(w.bullets) < MaxPlayerBullets
    THEN [w EXCEPT !.bullets = Append(@, [y |-> PlayerY - playerRadius,
                                          Life |-> bulletLife])]
    ELSE w

\* bullet b is inside asteroid a
BulletInside(b, a) ==
    (b.y - a.y) * (b.y - a.y) < AsteroidRadius(a.size) * AsteroidRadius(a.size)

\* the asteroids bullet k of w is inside
AsteroidsAt(w, k) ==
    {j \in 1..Len(w.asteroids) : BulletInside(w.bullets[k], w.asteroids[j])}

\* the lists of hits CollisionSystem can report for the bullets B: the maps
\* of bullets and of asteroids are ranged over in any order, and a bullet
\* hits the first asteroid found that it is inside
RECURSIVE BulletHits(_, _)
BulletHits(w, B) ==
    IF B = {} THEN {<<>>}
    ELSE UNION {{<<[Bullet |-> k, Asteroid |-> j]>> \o s :
                    j \in AsteroidsAt(w, k), s \in BulletHits(w, B \ {k})} :
                k \in B}

\* the events CollisionSystem can report
CollisionSystem(w) ==
    {[BulletHits |-> s,
      PlayerHit |-> /\ w.player.alive
                    /\ ~w.player.Invulnerable
                    /\ \E j \in 1..Len(w.asteroids) :
                          Abs(PlayerY - w.asteroids[j].y)
                              < playerRadius + AsteroidRadius(w.asteroids[j].size)] :
        s \in BulletHits(w, {k \in 1..Len(w.bullets) :
                                /\ w.bullets[k].Life > 0
                                /\ AsteroidsAt(w, k) # {}})}

\* a variant with `if` in place of `for`
checkExtraLifeOnce(w) ==
    IF w.Score >= w.NextExtraLifeAt
    THEN [w EXCEPT !.Lives = @ + 1, !.NextExtraLifeAt = @ + 10000]
    ELSE w

RECURSIVE checkExtraLife(_)
checkExtraLife(w) ==
    IF w.Score >= w.NextExtraLifeAt
    THEN checkExtraLife([w EXCEPT !.Lives = @ + 1,
                                  !.NextExtraLifeAt = @ + 10000])
    ELSE w

\* respawnPlayer, for a player that is at the centre and at rest already
respawnPlayer(w) ==
    [w EXCEPT !.player.vx = 0, !.player.vy = 0, !.player.Angle = 0,
              !.player.Invulnerable = TRUE, !.player.InvulnerableTimer = 120]

killPlayer(w) ==
    LET w1 == [w EXCEPT !.Lives = @ - 1, !.SaucerActive = FALSE,
                        !.saucer = NoSaucer, !.saucerBullets = <<>>,
                        !.SaucerSpawnTimer = saucerRespawnDelay]
    IN  IF w1.Lives <= 0 THEN [w1 EXCEPT !.player.alive = FALSE]
        ELSE respawnPlayer(w1)

\* the loop over events.BulletHits from hit k on; acc holds the World, the
\* bullets and asteroids destroyed so far and the asteroids spawned so far
RECURSIVE ProcessHits(_, _, _)
ProcessHits(acc, hits, k) ==
    IF k > Len(hits) THEN {acc}
    ELSE IF hits[k].Asteroid \in acc.destroyed THEN ProcessHits(acc, hits, k + 1)
    ELSE LET ast == acc.w.asteroids[hits[k].Asteroid]
             w1 == checkExtraLife([acc.w EXCEPT
                                     !.Score = @ + AsteroidScore(ast.size)])
             acc1 == [acc EXCEPT !.w = w1,
                                 !.destroyed = @ \cup {hits[k].Asteroid},
                                 !.used = @ \cup {hits[k].Bullet}]
         IN  IF ast.size = SizeSmall THEN ProcessHits(acc1, hits, k + 1)
             ELSE UNION {ProcessHits(
                            [acc1 EXCEPT !.spawned = @ \o
                                <<[y |-> ast.y, vy |-> v1, size |-> ast.size + 1],
                                  [y |-> ast.y, vy |-> v2, size |-> ast.size + 1]>>],
                            hits, k + 1) :
                         v1 \in FragmentVelocities(ast.size + 1),
                         v2 \in FragmentVelocities(ast.size + 1)}

\* the Worlds CollisionResponseSystem can leave
CollisionResponseSystem(w, events) ==
    {LET w1 == [acc.w EXCEPT
                  !.asteroids = KeepFrom(@, acc.destroyed, 1) \o acc.spawned,
                  !.bullets = KeepFrom(@, acc.used, 1)]
     IN  IF events.PlayerHit THEN killPlayer(w1) ELSE w1 :
     acc \in ProcessHits([w |-> w, destroyed |-> {}, used |-> {},
                          spawned |-> <<>>], events.BulletHits, 1)}

\* the Worlds WaveClearSystem can leave
WaveClearSystem(w) ==
    IF Len(w.asteroids) + w.far = 0
    THEN {spawnWave([w EXCEPT !.Level = @ + 1], p) : p \in Placements}
    ELSE {w}

\* the World of a headless tick when ShootingSystem is called: after
\* AIInputSystem, PhysicsSystem, WrapSystem, InvulnerabilitySystem,
\* LifetimeSystem and SaucerSpawnSystem
BeforeShooting(w, action) ==
    LET w1 == AIInputSystem(w, action)
        w2 == PhysicsSystem(w1)
        w3 == WrapSystem(w2)
        w4 == InvulnerabilitySystem(w3)
        w5 == LifetimeSystem(w4)
    IN  SaucerSpawnSystem(w5)

\* the systems of a headless tick, in the order of runOnce.  SaucerAISystem,
\* SaucerBulletLifetimeSystem and SaucerDespawnSystem do nothing without a
\* saucer, and HyperspaceSystem does nothing when Hyperspace is not pressed.
HeadlessTick(w, action) ==
    LET w7 == ShootingSystem(BeforeShooting(w, action))
    IN  UNION {UNION {WaveClearSystem(w8) :
                         w8 \in CollisionResponseSystem(w7, events)} :
               events \in CollisionSystem(w7)}

\* DefaultSimConfig with the given MaxTicks and NumRuns
SimConfig(maxTicks, numRuns) ==
    [MaxTicks |-> maxTicks, NumRuns |-> numRuns, ScoreWeight |-> 3 * Milli,
     SurvivalBonus |-> Milli \div 20, ApproachWeight |-> Milli \div 5,
     HitBonus |-> 20 * Milli, ShotPenalty |-> 3 * Milli]

computeFitness(score, ticks, shapingReward, c) ==
    score * c.ScoreWeight + ticks * c.SurvivalBonus + shapingReward

\* the shaping reward after the `Fitness shaping` statements of a tick
Shaping(shapingReward, obs, action, bulletsBefore, bulletsAfter, score, prevScore, c) ==
    LET s1 == IF obs[35] > 0
              THEN shapingReward + RoundDiv(obs[35] * c.ApproachWeight, Milli)
              ELSE shapingReward
        s2 == IF bulletsAfter > bulletsBefore
              THEN (IF 10 * obs[36] < 3 * Milli THEN s1 - c.ShotPenalty
                    ELSE s1 + 2 * Milli)
              ELSE s1
        s3 == IF score > prevScore THEN s2 + c.HitBonus ELSE s2
    IN  IF 10 * obs[38] > 3 * Milli /\ ~action.Thrust
        THEN s3 - RoundDiv(obs[38] * 3, 2)
        ELSE s3

\* the calls of RunSimulation in the model: the agent with MaxTicks and
\* NumRuns
SimCases ==
    {[agent |-> "static", cfg |-> SimConfig(60, 1)],
     [agent |-> "static", cfg |-> SimConfig(365, 2)],
     [agent |-> "static", cfg |-> SimConfig(-1, 2)],
     [agent |-> "static", cfg |-> SimConfig(0, 0)],
     [agent |-> "shooter", cfg |-> SimConfig(20, 3)],
     [agent |-> "shooter", cfg |-> SimConfig(65, 1)]}

\* no run is in progress
NoRun == [w |-> RunWorld, tick |-> 0, shapingReward |-> 0, prevScore |-> 0]

\* RunSimulation(agent, cfg) is called
InitSim ==
    /\ InitGA({GAConfig(1, 1, 0, 1, 1, 0, 1)}, {One \div 2})
    /\ rand = FullRand
    /\ call = NoCall
    /\ nets = NoNets
    /\ \E c \in SimCases :
         sim = [pc |-> "call", agent |-> c.agent, cfg |-> c.cfg, runs |-> 0,
                totalFitness |-> 0, totalScore |-> 0, totalTicks |-> 0,
                done |-> <<>>, run |-> NoRun, ret |-> <<>>]

\* runs := cfg.NumRuns, at least 1; the totals start at 0
RunSimulationCall ==
    /\ sim.pc = "call"
    /\ sim' = [sim EXCEPT !.pc = "loop",
                          !.runs = IF sim.cfg.NumRuns < 1 THEN 1
                                   ELSE sim.cfg.NumRuns]
    /\ UNCHANGED <<gaVars, call, nets>>

\* runOnce is called and sets up its World, with a wave placed as p
RunOnceCall(p) ==
    /\ sim.pc = "loop"
    /\ Len(sim.done) < sim.runs
    /\ sim' = [sim EXCEPT !.pc = "tick",
                          !.run = [NoRun EXCEPT !.w = spawnWave(RunWorld, p)]]
    /\ UNCHANGED <<gaVars, call, nets>>

\* one iteration of the loop of runOnce
Tick ==
    /\ sim.pc = "tick"
    /\ sim.run.tick < sim.cfg.MaxTicks
    /\ sim.run.w.Lives > 0
    /\ LET obs == ExtractObservation(sim.run.w)
           action == AgentAct(sim.agent, obs)
       IN  \E w1 \in HeadlessTick(sim.run.w, action) :
              sim' = [sim EXCEPT
                        !.run = [w |-> w1,
                                 tick |-> sim.run.tick + 1,
                                 shapingReward |->
                                     Shaping(sim.run.shapingReward, obs, action,
                                             Len(sim.run.w.bullets),
                                             Len(w1.bullets), w1.Score,
                                             sim.run.prevScore, sim.cfg),
                                 prevScore |-> w1.Score]]
    /\ UNCHANGED <<gaVars, call, nets>>

\* a variant that reports the tick cap from every return
RunOnceResultCap(r, c) ==
    [Score |-> r.w.Score, Ticks |-> c.MaxTicks,
     Fitness |-> computeFitness(r.w.Score, c.MaxTicks, r.shapingReward, c),
     Lives |-> r.w.Lives, Simulated |-> r.tick]

\* the SimResult runOnce returns from run r: inside the loop when no life
\* is left, behind the loop otherwise
RunOnceResult(r, c) ==
    LET ticks == IF r.tick < c.MaxTicks THEN r.tick ELSE c.MaxTicks
    IN  [Score |-> r.w.Score, Ticks |-> ticks,
         Fitness |-> computeFitness(r.w.Score, ticks, r.shapingReward, c),
         Lives |-> r.w.Lives, Simulated |-> r.tick]

\* runOnce returns and RunSimulation adds the result to its totals
RunOnceReturn ==
    /\ sim.pc = "tick"
    /\ sim.run.tick >= sim.cfg.MaxTicks \/ sim.run.w.Lives <= 0
    /\ LET r == RunOnceResult(sim.run, sim.cfg)
       IN  sim' = [sim EXCEPT !.pc = "loop",
                              !.totalFitness = @ + r.Fitness,
                              !.totalScore = @ + r.Score,
                              !.totalTicks = @ + r.Ticks,
                              !.done = Append(@, r),
                              !.run = NoRun]
    /\ UNCHANGED <<gaVars, call, nets>>

\* a variant that rounds the integer means to the nearest integer
SimResultRounded(s) ==
    [Score |-> RoundDiv(s.totalScore, s.runs),
     Ticks |-> RoundDiv(s.totalTicks, s.runs),
     Fitness |-> RoundDiv(s.totalFitness, s.runs)]

\* the SimResult RunSimulation returns
SimResult(s) ==
    [Score |-> GoDiv(s.totalScore, s.runs),
     Ticks |-> GoDiv(s.totalTicks, s.runs),
     Fitness |-> RoundDiv(s.totalFitness, s.runs)]

\* RunSimulation returns
RunSimulationReturn ==
    /\ sim.pc = "loop"
    /\ Len(sim.done) >= sim.runs
    /\ sim' = [sim EXCEPT !.pc = "done", !.ret = SimResult(sim)]
    /\ UNCHANGED <<gaVars, call, nets>>

NextSim ==
    \/ RunSimulationCall
    \/ \E p \in Placements : RunOnceCall(p)
    \/ Tick
    \/ RunOnceReturn
    \/ RunSimulationReturn

SpecSim == InitSim /\ [][NextSim]_vars

(***************************************************************************)
(* Score awards: CollisionSystem and CollisionResponseSystem on a World in *)
(* which player bullets are inside an asteroid                             *)
(***************************************************************************)
\* the World of a game in which the score s has been reached since reset:
\* a life was added at every 10,000 points
ScoreReached(s) ==
    [RunWorld EXCEPT !.Score = s, !.Lives = 3 + s \div 10000,
                     !.NextExtraLifeAt = 10000 * (s \div 10000 + 1)]

\* the World of a reset game whose Score has then been assigned, as the
\* tests of the extra life do
ScoreAssigned(s) == [RunWorld EXCEPT !.Score = s]

\* the scores of the Worlds of the model
AwardScores == {0, 9900, 9950, 9980, 19950}

\* the Worlds before the first award: an asteroid of any size that is 200
\* pixels above the player, with one to three bullets at its centre
AwardWorlds ==
    {[w EXCEPT !.asteroids = <<[y |-> 100 * Sub, vy |-> Sub, size |-> size]>>,
               !.bullets = [k \in 1..n |-> [y |-> 100 * Sub, Life |-> 30]]] :
        w \in {ScoreReached(s) : s \in AwardScores} \cup {ScoreAssigned(29950)},
        size \in {SizeLarge, SizeMedium, SizeSmall},
        n \in 1..3}

InitAward ==
    /\ InitIdleGA
    /\ rand = FullRand
    /\ \E w \in AwardWorlds :
         call = [op |-> "CollisionResponseSystem", w |-> w,
                 events |-> [BulletHits |-> <<>>, PlayerHit |-> FALSE]]

\* events := CollisionSystem(w); CollisionResponseSystem(w, events), with
\* bullets that hit
CollisionCall ==
    /\ call.op = "CollisionResponseSystem"
    /\ \E events \in CollisionSystem(call.w) :
         /\ events.BulletHits # <<>>
         /\ \E w1 \in CollisionResponseSystem(call.w, events) :
               call' = [call EXCEPT !.w = w1, !.events = events]
    /\ UNCHANGED <<gaVars, nets, sim>>

NextAward == CollisionCall

SpecAward == InitAward /\ [][NextAward]_vars

(***************************************************************************)
(* Single calls of ExtractObservation                                      *)
(***************************************************************************)
\* the asteroids of the Worlds that are observed: none, one above the
\* player, one on each side, and six of them
ObservedAsteroids ==
    {<<>>,
     <<OnLine(100, 2)>>,
     <<OnLine(400, -4), OnLine(149, 5)>>,
     <<OnLine(100, 2), OnLine(450, -3), OnLine(560, 4), OnLine(20, 5),
       OnLine(200, -2), OnLine(380, 3)>>}

\* their saucers: none, or one 50 pixels from the top
ObservedSaucers == {NoSaucer, [nil |-> FALSE, y |-> 50 * Sub]}

\* their saucer bullets: none, one that comes down on the player, and that
\* one with another that flies away
ObservedSaucerBullets ==
    {<<>>,
     <<[y |-> 200 * Sub, vy |-> 3 * Sub]>>,
     <<[y |-> 350 * Sub, vy |-> 3 * Sub], [y |-> 200 * Sub, vy |-> 3 * Sub]>>}

\* the Worlds that are observed
ObservedWorlds ==
    {[RunWorld EXCEPT !.asteroids = [k \in 1..Len(a) |->
                                        [y |-> a[k].y, vy |-> a[k].vy,
                                         size |-> IF k % 2 = 1 THEN SizeLarge
                                                  ELSE SizeSmall]],
                      !.SaucerActive = s # NoSaucer,
                      !.saucer = s,
                      !.saucerBullets = sb,
                      !.player.Invulnerable = inv,
                      !.bullets = [k \in 1..n |-> [y |-> (280 - 7 * k) * Sub,
                                                   Life |-> bulletLife - k]],
                      !.Lives = lives] :
        a \in ObservedAsteroids, s \in ObservedSaucers,
        sb \in ObservedSaucerBullets, inv \in BOOLEAN, n \in {0, 4},
        lives \in {1, 3}}

InitObserve ==
    /\ InitIdleGA
    /\ rand = FullRand
    /\ \E w \in ObservedWorlds :
         call = [op |-> "ExtractObservation", w |-> w, ret |-> <<>>,
                 done |-> FALSE]

\* the call returns the observation vector
ExtractObservationCall ==
    /\ call.op = "ExtractObservation"
    /\ ~call.done
    /\ call' = [call EXCEPT !.ret = ExtractObservation(call.w), !.done = TRUE]
    /\ UNCHANGED <<gaVars, nets, sim>>

NextObserve == ExtractObservationCall

SpecObserve == InitObserve /\ [][NextObserve]_vars

(***************************************************************************)
(* The headless tick of runOnce and the tick of Game.updatePlaying         *)
(***************************************************************************)
\* the AIAction that presses what the keys press
KeysAction(keys) ==
    [RotateLeft |-> "Left" \in keys \/ "A" \in keys,
     RotateRight |-> "Right" \in keys \/ "D" \in keys,
     Thrust |-> "Up" \in keys \/ "W" \in keys,
     Shoot |-> "Space" \in keys,
     Hyperspace |-> "ShiftLeft" \in keys \/ "ShiftRight" \in keys]

\* HyperspaceSystem; a teleport draws 1/2 twice in the model, which puts the
\* player at the centre of the screen
HyperspaceSystem(w, rng) ==
    IF ~w.player.alive THEN w
    ELSE IF ~w.player.HyperspacePressed \/ w.player.HyperspaceCooldown > 0
    THEN [w EXCEPT !.player.HyperspaceCooldown = IF @ > 0 THEN @ - 1 ELSE @]
    ELSE LET w1 == IF 16 * rng < Milli THEN killPlayer(w)
                   ELSE [w EXCEPT !.player.vx = 0, !.player.vy = 0]
         IN  [w1 EXCEPT !.player.HyperspaceCooldown = 30]

\* the sound events that a system queues when it takes World w0 to w1: the
\* shot of a new bullet and the death of the player
Emit(w0, w1) ==
    [w1 EXCEPT !.SoundQueue =
        @ \o (IF Len(w1.bullets) > Len(w0.bullets) THEN <<"SoundFire">>
              ELSE <<>>)
          \o (IF w1.Lives < w0.Lives THEN <<"SoundPlayerDeath">> ELSE <<>>)]

\* SoundSystem(g.sound, w) with the sound manager that reset() makes
SoundSystem(w) == [w EXCEPT !.SoundQueue = <<>>]

\* the calls of a tick of runOnce, in order
runOnceSystems ==
    <<"AIInputSystem", "PhysicsSystem", "WrapSystem", "InvulnerabilitySystem",
      "LifetimeSystem", "SaucerSpawnSystem", "SaucerAISystem",
      "SaucerBulletLifetimeSystem", "SaucerDespawnSystem", "HyperspaceSystem",
      "ShootingSystem", "CollisionSystem", "CollisionResponseSystem",
      "WaveClearSystem", "ClearSoundQueue">>

\* the calls of a tick of updatePlaying, in order
updatePlayingSystems ==
    <<"InputSystem", "PhysicsSystem", "WrapSystem", "InvulnerabilitySystem",
      "LifetimeSystem", "SaucerSpawnSystem", "SaucerAISystem",
      "SaucerBulletLifetimeSystem", "SaucerDespawnSystem", "HyperspaceSystem",
      "ShootingSystem", "CollisionSystem", "CollisionResponseSystem",
      "WaveClearSystem", "SoundSystem">>

\* the outcomes of one call of a tick on s, the World and the events of the
\* last CollisionSystem; the Worlds of the model have no saucer and no
\* saucer bullets, for which SaucerAISystem, SaucerBulletLifetimeSystem and
\* SaucerDespawnSystem do nothing
SystemStep(name, s, inp) ==
    CASE name = "AIInputSystem" ->
           {[s EXCEPT !.w = AIInputSystem(s.w, KeysAction(inp.keys))]}
      [] name = "InputSystem" -> {[s EXCEPT !.w = InputSystem(s.w, inp.keys)]}
      [] name = "PhysicsSystem" -> {[s EXCEPT !.w = PhysicsSystem(s.w)]}
      [] name = "WrapSystem" -> {[s EXCEPT !.w = WrapSystem(s.w)]}
      [] name = "InvulnerabilitySystem" ->
           {[s EXCEPT !.w = InvulnerabilitySystem(s.w)]}
      [] name = "LifetimeSystem" -> {[s EXCEPT !.w = LifetimeSystem(s.w)]}
      [] name = "SaucerSpawnSystem" ->
           {[s EXCEPT !.w = SaucerSpawnSystem(s.w)]}
      [] name \in {"SaucerAISystem", "SaucerBulletLifetimeSystem",
                   "SaucerDespawnSystem"} -> {s}
      [] name = "HyperspaceSystem" ->
           {[s EXCEPT !.w = Emit(s.w, HyperspaceSystem(s.w, inp.rng))]}
      [] name = "ShootingSystem" ->
           {[s EXCEPT !.w = Emit(s.w, ShootingSystem(s.w))]}
      [] name = "CollisionSystem" ->
           {[s EXCEPT !.events = e] : e \in CollisionSystem(s.w)}
      [] name = "CollisionResponseSystem" ->
           {[s EXCEPT !.w = Emit(s.w, w1)] :
               w1 \in CollisionResponseSystem(s.w, s.events)}
      [] name = "WaveClearSystem" ->
           {[s EXCEPT !.w = w1] : w1 \in WaveClearSystem(s.w)}
      [] name = "SoundSystem" -> {[s EXCEPT !.w = SoundSystem(s.w)]}
      [] name = "ClearSoundQueue" -> {[s EXCEPT !.w.SoundQueue = <<>>]}

\* the outcomes of the calls of systems from the k-th on
RECURSIVE RunSystems(_, _, _, _)
RunSystems(systems, k, S, inp) ==
    IF k > Len(systems) THEN {s.w : s \in S}
    ELSE RunSystems(systems, k + 1,
                    UNION {SystemStep(systems[k], s, inp) : s \in S}, inp)

\* the Worlds a tick of the systems can make of w
TickOf(systems, w, inp) ==
    RunSystems(systems, 1,
               {[w |-> w,
                 events |-> [BulletHits |-> <<>>, PlayerHit |-> FALSE]]}, inp)

\* the Worlds at the start of a tick: no asteroid is left, a large one is
\* hit by the bullets, or a small one is on the player
TickAsteroids ==
    {<<>>,
     <<[y |-> 100 * Sub, vy |-> 2, size |-> SizeLarge]>>,
     <<[y |-> PlayerY, vy |-> 2, size |-> SizeSmall]>>}

TickWorlds ==
    {[RunWorld EXCEPT !.asteroids = a,
                      !.bullets = [k \in 1..n |-> [y |-> (105 + k) * Sub,
                                                   Life |-> 30 + k]],
                      !.player.Invulnerable = inv,
                      !.player.HyperspaceCooldown = cd,
                      !.Lives = lives] :
        a \in TickAsteroids, n \in {0, 4}, inv \in BOOLEAN, cd \in {0, 5},
        lives \in {1, 3}}

\* the keys of a tick: those that leave the player at the centre, facing up
TickKeys == SUBSET {"Space", "ShiftLeft", "ShiftRight", "Escape"}

\* the draw of rand.Float64() that HyperspaceSystem gets: 0 and 1/2
HyperspaceDraws == {0, Milli \div 2}

\* the players of the calls of the input systems alone
InputWorlds ==
    {[RunWorld EXCEPT !.player.Angle = angle, !.player.vx = v[1],
                      !.player.vy = v[2]] :
        angle \in {0, 1}, v \in {<<0, 0>>, <<3000, -3990>>}}

InputKeys ==
    SUBSET {"Left", "A", "Right", "D", "Up", "W", "Space", "ShiftLeft",
            "ShiftRight"}

InitTick ==
    /\ InitIdleGA
    /\ rand = FullRand
    /\ \/ \E w \in TickWorlds, keys \in TickKeys, rng \in HyperspaceDraws :
            call = [op |-> "tick", w |-> w, keys |-> keys, rng |-> rng,
                    headless |-> {}, interactive |-> {}, state |-> "playing"]
       \/ \E w \in InputWorlds, keys \in InputKeys :
            call = [op |-> "input", w |-> w, keys |-> keys, rng |-> 0,
                    headless |-> {}, interactive |-> {}, state |-> "playing"]

\* one pass of the loop of runOnce on call.w, with the action that the keys
\* press
RunOnceTick ==
    /\ call.op = "tick"
    /\ call.headless = {}
    /\ call.w.Lives > 0
    /\ call' = [call EXCEPT !.headless = TickOf(runOnceSystems, call.w, call)]
    /\ UNCHANGED <<gaVars, nets, sim>>

\* g.updatePlaying() on call.w
updatePlaying ==
    /\ call.op = "tick"
    /\ call.state = "playing"
    /\ call.interactive = {}
    /\ IF "Escape" \in call.keys
       THEN call' = [call EXCEPT !.state = "paused"]
       ELSE \E w1 \in TickOf(updatePlayingSystems, call.w, call) :
               call' = [call EXCEPT
                           !.interactive = {w1},
                           !.state = IF w1.Lives <= 0 THEN "gameOver" ELSE @]
    /\ UNCHANGED <<gaVars, nets, sim>>

\* AIInputSystem(w, action) alone
AIInputSystemCall ==
    /\ call.op = "input"
    /\ call.headless = {}
    /\ call' = [call EXCEPT
                   !.headless = {AIInputSystem(call.w, KeysAction(call.keys))}]
    /\ UNCHANGED <<gaVars, nets, sim>>

\* InputSystem(w) alone
InputSystemCall ==
    /\ call.op = "input"
    /\ call.interactive = {}
    /\ call' = [call EXCEPT !.interactive = {InputSystem(call.w, call.keys)}]
    /\ UNCHANGED <<gaVars, nets, sim>>

NextTick ==
    \/ RunOnceTick
    \/ updatePlaying
    \/ AIInputSystemCall
    \/ InputSystemCall

SpecTick == InitTick /\ [][NextTick]_vars

(***************************************************************************)
(* Properties                                                              *)
(***************************************************************************)
\* the positions of Evolve after wg.Wait() has returned
AfterWait == {"sort", "best", "elite", "select", "breed", "replace", "inc"}

\* the evaluation goroutines that hold a token of sem
Admitted == {idx \in DOMAIN task : task[idx] \in {"spawned", "evaluating", "returned"}}

\* the evaluation goroutines whose evaluate call is in progress
Evaluating == {idx \in DOMAIN task : task[idx] = "evaluating"}

\* the evaluation goroutines that have not finished
Live == {idx \in DOMAIN task : task[idx] \notin {"none", "done"}}

\* a step of the thread that called Evolve: each of its steps moves pc, and
\* no step of an evaluation goroutine does
CallerStep == pc' # pc

\* the genome references of a population, in order
Refs(pop) == [k \in DOMAIN pop |-> pop[k].Genome]

\* C1: in every step of an Evolve call after the first one, BestEver.Fitness
\* does not decrease, so the value seen after a call is at least the value
\* seen after every earlier call.
C1_BestEverNeverRegresses ==
    [][Generation >= 1 => BestEver'.Fitness >= BestEver.Fitness]_vars

\* a later call whose best individual is worse than BestEver has passed the
\* `Track best ever` statement
C1_Witness ==
    /\ Generation >= 1
    /\ pc = "elite"
    /\ Population[1].Fitness < BestEver.Fitness

\* C2: when the next population replaces the evaluated one, the evaluated
\* population is sorted by descending fitness, and positions 1..EliteCount of
\* the new population hold the genome contents and the fitness of positions
\* 1..EliteCount of the evaluated one.
C2_ElitesCarriedOver ==
    [][(pc = "replace" /\ pc' = "inc") =>
          /\ Descending(Population)
          /\ Len(Population') = Len(Population)
          /\ \A k \in 1..cfg.EliteCount :
               /\ Population'[k].Fitness = Population[k].Fitness
               /\ GenomeOf(heap', Population'[k]) = GenomeOf(heap, Population[k])]_vars

\* a population with an elite of fitness 1 and a child that differs from it
\* has replaced the evaluated one
C2_Witness ==
    /\ pc = "inc"
    /\ cfg.EliteCount = 1
    /\ cfg.GenomeSize = 2
    /\ Population[1].Fitness = 1
    /\ GenomeOf(heap, Population[2]) # GenomeOf(heap, Population[1])

\* C3: while Evolve sorts, updates BestEver and builds or installs the next
\* population, every evaluation goroutine of the call has finished.
C3_EvaluationBeforeSort ==
    pc \in AfterWait =>
        /\ wg = 0
        /\ \A idx \in 1..Len(Population) : task[idx] = "done"

\* Evolve is about to sort after three evaluations by two workers
C3_Witness ==
    /\ pc = "sort"
    /\ cfg.Workers = 2
    /\ Len(Population) = 3
    /\ \A idx \in 1..3 : Population[idx].Fitness # 0

\* C4: with Workers >= 1, at most Workers evaluate calls are in progress; the
\* goroutines that were started and have not yet released their slot are
\* exactly as many as the tokens in sem, which never exceed Workers.
C4_BoundedEvaluations ==
    cfg.Workers >= 1 =>
        /\ Cardinality(Evaluating) <= cfg.Workers
        /\ Cardinality(Admitted) = sem
        /\ sem <= cfg.Workers

\* two evaluate calls are in progress and the third individual waits at the gate
C4_Witness ==
    /\ cfg.Workers = 2
    /\ pc = "send"
    /\ i = 3
    /\ Cardinality(Evaluating) = 2

\* C5 as claimed: Population, BestEver and Generation change only in steps of
\* the thread that called Evolve, taken while no evaluation goroutine is live.
C5_OnlyCallerMutates ==
    [][(Population' # Population \/ BestEver' # BestEver
            \/ Generation' # Generation) =>
          (CallerStep /\ Live = {})]_vars

\* C5, amended: BestEver, Generation, the genome arrays and the order and
\* genome references of the population change only in steps of the thread
\* that called Evolve, taken while no evaluation goroutine is live; any other
\* step that changes the population is the write of one evaluating
\* goroutine to the Fitness of its own individual.
C5_CallerMutatesButFitness ==
    [][/\ (Refs(Population') # Refs(Population) \/ BestEver' # BestEver
              \/ Generation' # Generation \/ heap' # heap) =>
             (CallerStep /\ Live = {})
       /\ (Population' # Population /\ ~CallerStep) =>
             \E idx \in Evaluating :
                Population' = [Population EXCEPT
                                  ![idx].Fitness = Population'[idx].Fitness]]_vars

\* one goroutine has stored its fitness while another is still evaluating
C5_Witness ==
    \E idx, j \in 1..Len(Population) :
        /\ task[idx] = "returned"
        /\ Population[idx].Fitness # 0
        /\ task[j] = "evaluating"

\* C6: whenever no Evolve call is in progress, the population holds
\* PopulationSize individuals and each genome holds GenomeSize genes.
C6_SizesFixed ==
    pc = "idle" =>
        /\ Len(Population) = cfg.PopulationSize
        /\ \A k \in 1..Len(Population) :
             Len(GenomeOf(heap, Population[k])) = cfg.GenomeSize

\* two Evolve calls have returned on genomes of two genes
C6_Witness ==
    /\ pc = "idle"
    /\ Generation = 2
    /\ cfg.GenomeSize = 2
    /\ cfg.EliteCount < cfg.PopulationSize

\* C7: the `Track best ever` statement replaces BestEver by the genome
\* contents and fitness of the top individual when the call is the
\* generation-0 call or the top fitness exceeds BestEver.Fitness, and leaves
\* it alone otherwise, as does every other step; after every Evolve call
\* BestEver.Fitness is the maximum fitness assigned so far and
\* BestEver.Genome is a genome that received it.
C7_BestEverIsMaximum ==
    /\ [][IF pc = "best" /\ (Generation = 0
                 \/ Population[1].Fitness > BestEver.Fitness)
          THEN /\ BestEver'.Fitness = Population[1].Fitness
               /\ GenomeOf(heap', BestEver') = GenomeOf(heap, Population[1])
          ELSE BestEver' = BestEver]_vars
    /\ []((pc = "idle" /\ Generation >= 1) =>
             /\ hist.any
             /\ BestEver.Fitness = hist.max
             /\ GenomeOf(heap, BestEver) \in hist.genomes)

\* a later generation has tied with BestEver with another genome on top
C7_Witness ==
    /\ Generation >= 1
    /\ pc = "elite"
    /\ Population[1].Fitness = BestEver.Fitness
    /\ GenomeOf(heap, Population[1]) # GenomeOf(heap, BestEver)

\* the slices held by BestEver, the current population and the filled
\* entries of next, as pairs of holder and address
Holders ==
    {<<"pop", k, Population[k].Genome>> : k \in 1..Len(Population)}
    \cup {<<"next", k, next[k].Genome>> :
             k \in {j \in 1..Len(next) : next[j].Genome # Nil}}
    \cup (IF BestEver.Genome # Nil THEN {<<"best", 0, BestEver.Genome>>}
          ELSE {})

\* C8: until the next population is installed, BestEver, the individuals of
\* the current population and the individuals of next hold pairwise
\* different arrays; and no step changes the contents of an array that
\* BestEver, the population or next holds.
C8_NoSharedGenomes ==
    /\ [](pc # "inc" =>
             \A x, y \in Holders : x # y => x[3] # y[3])
    /\ [][\A x \in Holders : heap'[x[3]] = heap[x[3]]]_vars

\* a child that differs from every individual of the current population has
\* been mutated in place, in a call after the one that set BestEver
C8_Witness ==
    /\ pc = "replace"
    /\ Generation >= 1
    /\ cfg.MutationRate > 0
    /\ cfg.EliteCount < cfg.PopulationSize
    /\ \A k \in 1..Len(Population) :
         GenomeOf(heap, next[Len(next)]) # GenomeOf(heap, Population[k])

\* C9: the individual the tournament returned is an individual of the
\* current, evaluated and sorted population, it is one of the drawn
\* individuals, no drawn individual has a higher fitness, TournamentSize
\* indices were drawn, and a tournament of one returns the drawn individual.
C9_TournamentWinner ==
    pc = "breed" =>
        /\ Live = {}
        /\ \A idx \in 1..Len(Population) : task[idx] = "done"
        /\ Len(draws) = Max(cfg.TournamentSize, 1)
        /\ \E k \in 1..Len(draws) : p1 = Population[draws[k]]
        /\ \A k \in 1..Len(draws) : p1.Fitness >= Population[draws[k]].Fitness
        /\ cfg.TournamentSize = 1 => p1 = Population[draws[1]]

\* the second draw of a tournament of two beat the first
C9_Witness ==
    /\ pc = "breed"
    /\ cfg.TournamentSize = 2
    /\ draws[1] # draws[2]
    /\ Population[draws[1]].Fitness < Population[draws[2]].Fitness
    /\ p1 = Population[draws[2]]

\* C10 as claimed: the child of blendCrossover has the length of its parents
\* and each of its genes lies between the parents' genes of that index.
C10_ChildBetweenParents ==
    (call.op = "blendCrossover" /\ call.done) =>
        /\ Len(call.ret) = Len(call.a)
        /\ \A k \in 1..Len(call.ret) :
             /\ Min(call.a[k], call.b[k]) <= call.ret[k]
             /\ call.ret[k] <= Max(call.a[k], call.b[k])

\* C11: mutate with rate 0 leaves every gene of the genome as it was, for
\* every genome, every scale and every draw of the random source.
C11_ZeroRateKeepsGenome ==
    (call.op = "mutate" /\ call.done /\ call.rate = 0) =>
        call.ret = call.genome

\* a call with rate 0 and scale 1.0 on a genome of two different nonzero
\* genes has returned
C11_Witness ==
    /\ call.op = "mutate"
    /\ call.done
    /\ call.rate = 0
    /\ call.scale = One
    /\ Len(call.genome) = 2
    /\ call.genome[1] # call.genome[2]
    /\ call.genome[1] # 0

\* a Network whose parameter arrays have the sizes its layer widths require
WellFormed(n) ==
    /\ n # NilNet
    /\ Len(n.Weights) = paramCounts(n.Layers).w
    /\ Len(n.Biases) = paramCounts(n.Layers).b

\* the step is a call x.SetParams(...)
SetParamsStep(x) ==
    /\ nets' # nets
    /\ nets'.last.op = "SetParams"
    /\ nets'.last.target = x
    /\ nets.obj[x] # NilNet

C13_AllOrNothing ==
    [][\A x \in NetNames :
         SetParamsStep(x) =>
            LET n == nets.obj[x]
                p == nets'.last.params
                lw == Len(n.Weights)
                lb == Len(n.Biases)
            IN  \/ /\ p.len >= lw + lb
                   /\ nets'.obj[x].Weights = SubSeq(p.arr, 1, lw)
                   /\ nets'.obj[x].Biases = SubSeq(p.arr, lw + 1, lw + lb)
                \/ /\ nets'.obj[x].Weights = n.Weights
                   /\ nets'.obj[x].Biases = n.Biases]_vars

\* C14: a call of Load on a stream that is cut short or corrupt returns an
\* error and the nil Network, and no call of Load returns a Network
\* together with an error.
C14_LoadFailsWithoutNetwork ==
    nets.last.op = "Load" =>
        /\ nets.last.stream.kind # "gob" =>
              (nets.last.err /\ nets.last.net = NilNet)
        /\ ~(nets.last.err /\ nets.last.net # NilNet)
        /\ nets.obj[nets.last.target] = nets.last.net

\* Load has failed on a stream that holds the start of what Save wrote
C14_Witness ==
    /\ nets.last.op = "Load"
    /\ nets.last.stream.kind = "truncated"
    /\ nets.last.stream.data.Layers = <<2, 1>>
    /\ nets.last.stream.data.Weights = <<0, One>>
    /\ nets.last.err
    /\ nets.obj[nets.last.target] = NilNet

\* C15 as claimed: every Network that exists has as many weights and
\* biases as its layer widths require, and no operation on a Network
\* changes its Layers.
C15_SizesMatchLayers ==
    /\ [](\A x \in NetNames : nets.obj[x] # NilNet => WellFormed(nets.obj[x]))
    /\ [][\A x \in NetNames :
            (nets.obj[x] # NilNet /\ nets'.obj[x] # NilNet
               /\ ~(nets'.last.target = x
                      /\ nets'.last.op \in {"NewNetwork", "Load"}))
            => nets'.obj[x].Layers = nets.obj[x].Layers]_vars

\* the Network has only zero weights and zero biases
ZeroNetwork(n) ==
    /\ \A k \in 1..Len(n.Weights) : n.Weights[k] = 0
    /\ \A k \in 1..Len(n.Biases) : n.Biases[k] = 0

\* the five flags of an AIAction, in the order of the outputs
Flags(a) == <<a.RotateLeft, a.RotateRight, a.Thrust, a.Shoot, a.Hyperspace>>

\* C16: Act sets each of the five flags exactly when the output of the
\* network for it is strictly greater than Threshold; a network with only
\* zero parameters has every output at 0.5, so that it gives the all-false
\* action at the default threshold 0.5 and the all-true action at a
\* threshold below 0.5, whatever the observation.
C16_ActThreshold ==
    (call.op = "Act" /\ call.done) =>
        /\ call.out \in Forward(call.Net, call.observation)
        /\ \A k \in 1..5 : Flags(call.ret)[k] <=> (call.out[k] > call.Threshold)
        /\ ZeroNetwork(call.Net) =>
              /\ \A k \in 1..5 : call.out[k] = One \div 2
              /\ call.Threshold = DefaultThreshold =>
                    \A k \in 1..5 : ~Flags(call.ret)[k]
              /\ call.Threshold < One \div 2 =>
                    \A k \in 1..5 : Flags(call.ret)[k]

\* the zero network with a hidden layer has answered a nonzero observation
\* at the default threshold
C16_Witness ==
    /\ call.op = "Act"
    /\ call.done
    /\ ZeroNetwork(call.Net)
    /\ call.Net.Layers = <<1, 1, 5>>
    /\ call.observation = <<One>>
    /\ call.Threshold = DefaultThreshold
    /\ \A k \in 1..5 : ~Flags(call.ret)[k]

\* C20 as claimed: for a and b in [0, size] the result of WrapDelta is
\* greater than -size/2 and at most size/2, and a plus the result differs
\* from b by a multiple of size.
C20_WrapDeltaHalfOpen ==
    (call.op = "WrapDelta" /\ call.done) =>
        /\ -call.size < 2 * call.ret
        /\ 2 * call.ret <= call.size
        /\ (call.a + call.ret - call.b) % call.size = 0

\* C20, amended: for a and b in [0, size] the result of WrapDelta lies in
\* the closed interval from -size/2 to size/2; it is the float64 difference
\* b - a, or that difference with size subtracted or added once, so that a
\* plus the result differs from b by a multiple of size whenever b - a is
\* exact in float64.
C20_WrapDeltaClosed ==
    (call.op = "WrapDelta" /\ call.done) =>
        /\ -call.size <= 2 * call.ret
        /\ 2 * call.ret <= call.size
        /\ call.ret \in {FSub(call.b, call.a),
                         FSub(FSub(call.b, call.a), call.size),
                         FAdd(FSub(call.b, call.a), call.size)}
        /\ Representable(call.b - call.a) =>
              (call.a + call.ret - call.b) % call.size = 0

\* a call whose difference is exactly -size/2 has returned -size/2, and so
\* has not wrapped
C20_Witness ==
    /\ call.op = "WrapDelta"
    /\ call.done
    /\ call.size = 4 * One
    /\ call.a = 3 * One
    /\ call.b = One
    /\ call.ret = -(2 * One)

\* the sum of field f over the records of s
RECURSIVE SumField(_, _)
SumField(s, f) == IF s = <<>> THEN 0 ELSE s[1][f] + SumField(Tail(s), f)

\* RunSimulation has returned
SimReturned == sim.pc = "done"

\* C17 (as stated): RunSimulation performs max(NumRuns, 1) runs and returns
\* the arithmetic mean of the per-run scores, of the per-run tick counts and
\* of the per-run fitness values (the fitness to the nearest 1/Milli).
C17_ArithmeticMeans ==
    SimReturned =>
        /\ Len(sim.done) = Max(sim.cfg.NumRuns, 1)
        /\ sim.ret.Score * Len(sim.done) = SumField(sim.done, "Score")
        /\ sim.ret.Ticks * Len(sim.done) = SumField(sim.done, "Ticks")
        /\ 2 * Abs(sim.ret.Fitness * Len(sim.done) - SumField(sim.done, "Fitness"))
               <= Len(sim.done)

\* C17 (amended): RunSimulation performs max(NumRuns, 1) runs; Score and
\* Ticks are the sums of the per-run scores and tick counts divided by the
\* number of runs on Go's int, the quotient truncated toward zero, and
\* Fitness is the sum of the per-run fitness values divided by the number
\* of runs.
C17_TruncatedMeans ==
    SimReturned =>
        /\ Len(sim.done) = Max(sim.cfg.NumRuns, 1)
        /\ sim.ret.Score = GoDiv(SumField(sim.done, "Score"), Len(sim.done))
        /\ sim.ret.Ticks = GoDiv(SumField(sim.done, "Ticks"), Len(sim.done))
        /\ sim.ret.Fitness = RoundDiv(SumField(sim.done, "Fitness"), Len(sim.done))

\* RunSimulation has returned from two runs whose tick counts have an odd
\* sum, so that their mean is not an integer
C17_Witness ==
    /\ SimReturned
    /\ Len(sim.done) = 2
    /\ SumField(sim.done, "Ticks") % 2 = 1
    /\ sim.ret.Ticks = SumField(sim.done, "Ticks") \div 2

\* C18 (as stated): every run simulates at most MaxTicks ticks and reports
\* 0 <= Ticks <= MaxTicks; a run that reports Ticks < MaxTicks ended with no
\* life left and reports the ticks simulated, every other run simulated
\* exactly MaxTicks ticks.
C18_TicksWithinCap ==
    \A k \in 1..Len(sim.done) :
        LET r == sim.done[k]
        IN  /\ r.Simulated <= sim.cfg.MaxTicks
            /\ 0 <= r.Ticks /\ r.Ticks <= sim.cfg.MaxTicks
            /\ r.Ticks < sim.cfg.MaxTicks => r.Lives <= 0 /\ r.Ticks = r.Simulated
            /\ r.Ticks = sim.cfg.MaxTicks => r.Simulated = sim.cfg.MaxTicks

\* what C18 says of a finished run r when MaxTicks is not negative, and
\* what happens when it is: no tick is simulated and Ticks = MaxTicks
RunWithinCap(r, maxTicks) ==
    /\ 0 <= r.Simulated /\ r.Simulated <= Max(maxTicks, 0)
    /\ r.Ticks < maxTicks => r.Lives <= 0 /\ r.Ticks = r.Simulated
    /\ r.Ticks >= maxTicks => r.Ticks = maxTicks /\ r.Simulated = Max(maxTicks, 0)
    /\ maxTicks >= 0 => 0 <= r.Ticks /\ r.Ticks <= maxTicks

\* C18 (amended): with MaxTicks >= 0 every run simulates at most MaxTicks
\* ticks, no tick is simulated once Lives <= 0, a run that stops with
\* Lives <= 0 before MaxTicks ticks reports the ticks simulated, every other
\* run simulated exactly MaxTicks ticks and reports MaxTicks, so
\* 0 <= Ticks <= MaxTicks and Ticks < MaxTicks implies no life left; with
\* MaxTicks < 0 no tick is simulated and the run reports Ticks = MaxTicks.
C18_TicksWithinCapFromZero ==
    /\ [](\A k \in 1..Len(sim.done) : RunWithinCap(sim.done[k], sim.cfg.MaxTicks))
    /\ [][sim.pc = "tick" /\ sim.run.w.Lives <= 0
             => sim'.pc # "tick" /\ Len(sim'.done) = Len(sim.done) + 1]_vars

\* a run has stopped with no life left before the tick cap, and another has
\* reached the cap with lives left
C18_Witness ==
    /\ Len(sim.done) = 2
    /\ sim.cfg.MaxTicks > 0
    /\ sim.done[1].Lives <= 0
    /\ sim.done[1].Ticks > 0 /\ sim.done[1].Ticks < sim.cfg.MaxTicks
    /\ sim.done[2].Lives > 0
    /\ sim.done[2].Ticks = sim.cfg.MaxTicks

\* C19: for an agent that returns the all-false action on every tick,
\* RunSimulation with MaxTicks = 60 and NumRuns = 1 returns Ticks > 0 and
\* Fitness >= Ticks * SurvivalBonus, whatever the placement and the motion
\* of the initial wave.
C19_AllFalseAgentFitness ==
    /\ SimReturned
    /\ sim.agent = "static"
    /\ sim.cfg.MaxTicks = 60
    /\ sim.cfg.NumRuns = 1
    => /\ sim.ret.Ticks > 0
       /\ sim.ret.Fitness >= sim.ret.Ticks * sim.cfg.SurvivalBonus

\* the first n individuals of a population
Top(pop, n) == SubSeq(pop, 1, Min(n, Len(pop)))

\* C24: when Evolve returns, positions 1..EliteCount of the population are
\* in non-increasing fitness order and every later position has Fitness 0;
\* position 1 (with EliteCount >= 1) received, when the new population
\* replaced the evaluated one, the genome contents and the fitness of an
\* individual of the evaluated population that no other one exceeds, and the
\* rest of the call leaves the population alone.
C24_ElitesOrderedRestZero ==
    /\ [](pc = "idle" /\ Generation >= 1 =>
             /\ Descending(Top(Population, cfg.EliteCount))
             /\ \A k \in 1..Len(Population) :
                  k > cfg.EliteCount => Population[k].Fitness = 0)
    /\ [][/\ (pc = "replace" /\ pc' = "inc" /\ cfg.EliteCount >= 1) =>
               \E b \in 1..Len(Population) :
                  /\ \A k \in 1..Len(Population) :
                       Population[b].Fitness >= Population[k].Fitness
                  /\ Population'[1].Fitness = Population[b].Fitness
                  /\ GenomeOf(heap', Population'[1]) = GenomeOf(heap, Population[b])
          /\ pc = "inc" => Population' = Population /\ heap' = heap]_vars

\* Evolve has returned a second time with an elite of fitness -1 before a
\* child, the best ever being better than both
C24_Witness ==
    /\ pc = "idle"
    /\ Generation = 2
    /\ cfg.EliteCount = 1
    /\ Population[1].Fitness = -1
    /\ Population[2].Fitness = 0
    /\ BestEver.Fitness = 1

\* C25: Generation is 0 after NewGA; a step changes it only by adding 1, as
\* the last step of an Evolve call and with the newly built population
\* already installed; and every Evolve call that returns has added 1.
C25_GenerationCountsEvolveCalls ==
    /\ Generation = 0
    /\ [][/\ Generation' # Generation =>
               /\ Generation' = Generation + 1
               /\ pc = "inc" /\ pc' = "idle"
               /\ Population = next /\ Population' = Population
          /\ (pc # "idle" /\ pc' = "idle") => Generation' = Generation + 1]_vars

\* Evolve has returned twice on a population of elites only
C25_Witness ==
    /\ pc = "idle"
    /\ Generation = 2
    /\ cfg.EliteCount = cfg.PopulationSize

\* the evaluation goroutines that have been started and have not yet
\* stored a result
Pending == {idx \in DOMAIN task : task[idx] \in {"spawned", "evaluating"}}

\* C28: in one Evolve call the goroutines use pairwise different slots of
\* the population; a goroutine calls evaluate once, after it was started,
\* and the step that stores its result changes the Fitness of the individual
\* of its own index and nothing else; and when the first call has waited
\* for the goroutines every individual has received a result (evaluate
\* never returns the initial fitness 0 in the model).
C28_OneEvaluationPerIndividual ==
    /\ [](\A a, b \in Live : a # b => Slot(a) # Slot(b))
    /\ [](pc = "sort" /\ Generation = 0 =>
             \A k \in 1..Len(Population) : Population[k].Fitness # 0)
    /\ [][\A idx \in DOMAIN task :
             /\ (task'[idx] = "evaluating" /\ task[idx] # "evaluating") =>
                   /\ task[idx] = "spawned"
                   /\ Population' = Population /\ heap' = heap
             /\ (task'[idx] = "returned" /\ task[idx] # "returned") =>
                   /\ task[idx] = "evaluating"
                   /\ heap' = heap
                   /\ Population' = [Population EXCEPT
                                        ![idx].Fitness = Population'[idx].Fitness]
             /\ (task'[idx] = "spawned" /\ task[idx] # "spawned") =>
                   /\ task[idx] = "none"
                   /\ \A j \in DOMAIN task : j < idx <=> task[j] # "none"]_vars

\* two goroutines are between their start and the store of their result,
\* after a first one has stored its own
C28_Witness ==
    /\ cfg.Workers = 2
    /\ Cardinality(Pending) = 2
    /\ \E idx \in DOMAIN task :
          task[idx] = "done" /\ Population[idx].Fitness # 0

\* an Evolve call is in progress
InEvolve == pc # "idle"

\* C29 (as stated): with Workers >= 1, PopulationSize >= 1 and
\* EliteCount <= PopulationSize, under fair scheduling and with every
\* evaluate call returning, an Evolve call that is in progress returns.
C29_EvolveReturns ==
    (/\ InEvolve
     /\ cfg.Workers >= 1
     /\ cfg.PopulationSize >= 1
     /\ cfg.EliteCount <= cfg.PopulationSize) ~> pc = "idle"

\* C29 (amended): with Workers >= 1, PopulationSize >= 1 and
\* 0 <= EliteCount <= PopulationSize, under fair scheduling and with every
\* evaluate call returning, an Evolve call that is in progress returns, and
\* when the completion barrier has let it pass every admitted goroutine
\* has released its slot of the admission gate.
C29_EvolveReturnsWithElitesFromZero ==
    /\ (/\ InEvolve
        /\ cfg.Workers >= 1
        /\ cfg.PopulationSize >= 1
        /\ 0 <= cfg.EliteCount
        /\ cfg.EliteCount <= cfg.PopulationSize) ~> pc = "idle"
    /\ [](pc \in AfterWait \cup {"idle"} => sem = 0)

\* Evolve has returned from a call in which two workers evaluated three
\* individuals
C29_Witness ==
    /\ pc = "idle"
    /\ Generation = 1
    /\ cfg.Workers = 2
    /\ Len(Population) = 3
    /\ sem = 0

\* C30: with Workers = 0 and a non-empty population, an Evolve call never
\* gets past the admission of the first individual: no goroutine is started
\* and no evaluate call made, no step changes the population, the genomes,
\* BestEver or Generation, and under fair scheduling the call reaches the
\* send on sem and stays there for ever.
C30_ZeroWorkersBlockForever ==
    /\ [](cfg.Workers = 0 /\ InEvolve =>
             /\ pc \in {"add", "send"}
             /\ i = 1
             /\ \A idx \in DOMAIN task : task[idx] = "none")
    /\ [][cfg.Workers = 0 =>
             /\ Population' = Population /\ heap' = heap
             /\ BestEver' = BestEver /\ Generation' = Generation]_vars
    /\ (cfg.Workers = 0 /\ InEvolve) ~> [](pc = "send")

\* Evolve waits at the admission of the first of three individuals, with
\* no worker
C30_Witness ==
    /\ cfg.Workers = 0
    /\ Len(Population) = 3
    /\ pc = "send"
    /\ wg = 1
    /\ sem = 0

\* a run of the harness is between two ticks
InRun == sim.pc = "tick"

\* the action of the agent in the tick that starts in the current state
ActionNow == AgentAct(sim.agent, ExtractObservation(sim.run.w))

\* the World of the current tick when ShootingSystem is called
AtShooting == BeforeShooting(sim.run.w, ActionNow)

\* the step is a tick of the harness
TickStep == InRun /\ sim'.pc = "tick" /\ sim'.run.tick = sim.run.tick + 1

\* C22: a run starts without bullets and has at most MaxPlayerBullets of
\* them after every tick; in a tick in which the player asks to shoot,
\* ShootingSystem adds nothing when MaxPlayerBullets bullets are in flight
\* at that moment and adds one bullet when fewer are, so a request succeeds
\* in the tick in which a bullet expires and in the tick after one hit.
C22_BulletCap ==
    /\ [](InRun => Len(sim.run.w.bullets) <= MaxPlayerBullets)
    /\ [](InRun /\ sim.run.tick = 0 => sim.run.w.bullets = <<>>)
    /\ [][TickStep /\ ActionNow.Shoot =>
             LET n == Len(AtShooting.bullets)
                 fired == Len(ShootingSystem(AtShooting).bullets) - n
             IN  /\ n <= MaxPlayerBullets
                 /\ n = MaxPlayerBullets => fired = 0
                 /\ n < MaxPlayerBullets => fired = 1
                 /\ Len(sim'.run.w.bullets) <= n + fired]_vars

\* four bullets are in flight after the first ones have expired: the oldest
\* of them will expire in the next tick and the youngest was shot in the
\* tick that ends
C22_Witness ==
    /\ InRun
    /\ sim.agent = "shooter"
    /\ sim.run.tick > bulletLife
    /\ Len(sim.run.w.bullets) = MaxPlayerBullets
    /\ sim.run.w.bullets[1].Life = 1
    /\ sim.run.w.bullets[MaxPlayerBullets].Life = bulletLife

\* the multiples of 10,000 from nextAt up to score
Thresholds(nextAt, score) ==
    {t \in nextAt..score : t % 10000 = 0}

BulletSpawned == Len(ShootingSystem(AtShooting).bullets) > Len(AtShooting.bullets)

\* the shaping reward the tick would leave if no shot were counted in it
ShapingNoShot ==
    Shaping(sim.run.shapingReward, ExtractObservation(sim.run.w), ActionNow,
            0, 0, sim'.run.w.Score, sim.run.prevScore, sim.cfg)

\* the shot term the tick applies to the shaping reward
ShotTerm == sim'.run.shapingReward - ShapingNoShot

\* C26: a harness tick in which ShootingSystem spawns a player bullet
\* applies one shot term to the shaping reward, +2.0 when obs[36] >= 0.3 at
\* the start of the tick and -ShotPenalty when obs[36] < 0.3, and a tick in
\* which no bullet is spawned applies none.
C26_ShotTermPerBullet ==
    [][TickStep =>
          IF BulletSpawned
          THEN ShotTerm = (IF 10 * ExtractObservation(sim.run.w)[36] >= 3 * Milli
                           THEN 2 * Milli ELSE -sim.cfg.ShotPenalty)
          ELSE ShotTerm = 0]_vars

\* the indices of the observation of the asteroid slot
SlotIndices(slot) == {8 + 4 * (slot - 1) + f : f \in 0..3}

\* C21: ExtractObservation returns 40 values; the entries of an asteroid
\* slot beyond the number of asteroids are 0; without asteroids the entries
\* 8-27 and 34-37 are 0, and without asteroids, saucer and saucer bullets
\* the entries 28-32, 38 and 39 are 0 as well.
C21_ObservationZeros ==
    (call.op = "ExtractObservation" /\ call.done) =>
        /\ DOMAIN call.ret = 0..39
        /\ \A slot \in 1..5 :
             slot > Len(call.w.asteroids) =>
                 \A k \in SlotIndices(slot) : call.ret[k] = 0
        /\ call.w.asteroids = <<>> =>
             \A k \in (8..27) \cup (34..37) : call.ret[k] = 0
        /\ (/\ call.w.asteroids = <<>>
            /\ ActiveSaucer(call.w) = NoSaucer
            /\ call.w.saucerBullets = <<>>) =>
             \A k \in (28..32) \cup {38, 39} : call.ret[k] = 0

\* the observation of a World with two asteroids: their slots are filled,
\* the three others and the saucer entries are 0, and there is a threat
C21_Witness ==
    /\ call.op = "ExtractObservation"
    /\ call.done
    /\ Len(call.w.asteroids) = 2
    /\ call.w.saucerBullets = <<>>
    /\ call.ret[9] # 0 /\ call.ret[13] # 0
    /\ call.ret[17] = 0
    /\ call.ret[28] = 0
    /\ call.ret[37] > 0
    /\ call.ret[38] > 0

\* the sequence without its first and its last element
Inner(s) == SubSeq(s, 2, Len(s) - 1)

\* C27: a headless tick of runOnce calls the systems of a tick of
\* updatePlaying in the same order, with AIInputSystem for InputSystem and
\* the emptying of the sound queue for SoundSystem; with the same control
\* inputs and the same random draws a World that the one tick can reach is
\* one that the other can reach, and the sound queue is empty after a
\* headless tick.
C27_HeadlessTickIsInteractiveTick ==
    /\ Inner(runOnceSystems) = Inner(updatePlayingSystems)
    /\ Head(runOnceSystems) = "AIInputSystem"
    /\ Head(updatePlayingSystems) = "InputSystem"
    /\ runOnceSystems[Len(runOnceSystems)] = "ClearSoundQueue"
    /\ updatePlayingSystems[Len(updatePlayingSystems)] = "SoundSystem"
    /\ (call.op = "tick" /\ call.headless # {} /\ "Escape" \notin call.keys) =>
          call.headless = TickOf(updatePlayingSystems, call.w, call)
    /\ (call.op = "tick" /\ call.interactive # {}) =>
          call.interactive \subseteq TickOf(runOnceSystems, call.w, call)
    /\ (call.op = "input" /\ call.headless # {}) =>
          call.headless = {InputSystem(call.w, call.keys)}
    /\ (call.op = "input" /\ call.interactive # {}) =>
          call.interactive = {AIInputSystem(call.w, KeysAction(call.keys))}
    /\ call.op \in {"tick", "input"} =>
          \A w1 \in call.headless : w1.SoundQueue = <<>>

\* both ticks fired a bullet with Space, which queued a sound, and left the
\* same World with an empty sound queue
C27_Witness ==
    /\ call.op = "tick"
    /\ "Space" \in call.keys
    /\ call.w.bullets = <<>>
    /\ call.headless # {}
    /\ call.interactive \subseteq call.headless
    /\ \E w1 \in call.interactive :
          /\ Len(w1.bullets) = 1
          /\ w1.player.ShootPressed
          /\ w1.SoundQueue = <<>>
          /\ w1.asteroids # <<>>
====
